---- MODULE Spec2Model ----
(***************************************************************************)
(* A model of joedb: the CLP-style pattern extractor (joedb/clp.py), the   *)
(* compressed trie, and the column store with its encoder and decoder      *)
(* (joedb/joedb.py).                                                       *)
(*                                                                         *)
(* Python strings are sequences of one-character strings.  Python dicts,   *)
(* whose iteration order is their insertion order, are sequences of        *)
(* [k |-> key, v |-> value] entries wherever the code iterates them.       *)
(***************************************************************************)
EXTENDS Integers, Sequences, FiniteSets, TLC

(***************************************************************************)
(* Characters and strings                                                  *)
(***************************************************************************)
Digits == {"0", "1", "2", "3", "4", "5", "6", "7", "8", "9"}

HexChars == Digits \cup {"a", "b", "c", "d", "e", "f", "A", "B", "C", "D", "E", "F"}

Letters ==
    {"a", "b", "c", "d", "e", "f", "g", "h", "i", "j", "k", "l", "m",
     "n", "o", "p", "q", "r", "s", "t", "u", "v", "w", "x", "y", "z",
     "A", "B", "C", "D", "E", "F", "G", "H", "I", "J", "K", "L", "M",
     "N", "O", "P", "Q", "R", "S", "T", "U", "V", "W", "X", "Y", "Z"}

\* \w of the regex engine
WordChars == Letters \cup Digits \cup {"_"}

\* \s of the regex engine, and what str.strip() removes
Whitespace == {" ", "\t", "\n"}

\* the character class [{}\[\](),;:\"\'=\-.] of the tokenizer
Delimiters == {"{", "}", "[", "]", "(", ")", ",", ";", ":", "\"", "'", "=", "-", "."}

\* Python's None where a string is expected: a value no string equals
None == <<"None">>

\* Python's None where a trie index is expected: a value no index equals
NoIndex == -1

Min(a, b) == IF a < b THEN a ELSE b

Max(a, b) == IF a < b THEN b ELSE a

Abs(n) == IF n < 0 THEN -n ELSE n

\* s[i:] with a 0-based i
Drop(s, i) == SubSeq(s, i + 1, Len(s))

\* s[:i]
Take(s, i) == SubSeq(s, 1, Min(i, Len(s)))

StartsWith(s, p) == Len(p) <= Len(s) /\ SubSeq(s, 1, Len(p)) = p

EndsWith(s, p) == Len(p) <= Len(s) /\ SubSeq(s, Len(s) - Len(p) + 1, Len(s)) = p

AllIn(s, set) == \A i \in 1..Len(s) : s[i] \in set

SetMin(S) == CHOOSE m \in S : \A n \in S : m <= n

SetMax(S) == CHOOSE m \in S : \A n \in S : m >= n

\* the length of the maximal run of characters of `set` in s that starts at position p
RunLen(s, p, set) ==
    LET stops == {q \in p..Len(s) : s[q] \notin set}
    IN  (IF stops = {} THEN Len(s) + 1 ELSE SetMin(stops)) - p

DigitChar == <<"0", "1", "2", "3", "4", "5", "6", "7", "8", "9">>

DigitVal(c) == CHOOSE d \in 0..9 : DigitChar[d + 1] = c

RECURSIVE NatToStr(_)
NatToStr(n) == IF n < 10 THEN <<DigitChar[n + 1]>> ELSE NatToStr(n \div 10) \o <<DigitChar[(n % 10) + 1]>>

\* str(n) of an int
IntToStr(n) == IF n < 0 THEN <<"-">> \o NatToStr(-n) ELSE NatToStr(n)

RECURSIVE DigitsToNat(_, _)
DigitsToNat(s, acc) == IF s = <<>> THEN acc ELSE DigitsToNat(Tail(s), acc * 10 + DigitVal(Head(s)))

\* whether int(s) parses: an optional sign and decimal digits
IsIntLiteral(s) ==
    LET body == IF s # <<>> /\ Head(s) \in {"-", "+"} THEN Tail(s) ELSE s
    IN  body # <<>> /\ AllIn(body, Digits)

\* int(s) of a string for which IsIntLiteral holds
StrToInt(s) ==
    IF Head(s) = "-" THEN -DigitsToNat(Tail(s), 0)
    ELSE IF Head(s) = "+" THEN DigitsToNat(Tail(s), 0)
    ELSE DigitsToNat(s, 0)

\* s.lstrip('0')
Lstrip0(s) == Drop(s, RunLen(s, 1, {"0"}))

Zeros(n) == [i \in 1..n |-> "0"]

\* s.zfill(width): zeros go after a leading sign
zfill(s, width) ==
    IF Len(s) >= width THEN s
    ELSE IF s # <<>> /\ Head(s) \in {"-", "+"}
         THEN <<Head(s)>> \o Zeros(width - Len(s)) \o Tail(s)
         ELSE Zeros(width - Len(s)) \o s

\* s.find(old) as a 1-based position, or 0
Find(s, old) ==
    LET hits == {p \in 1..(Len(s) - Len(old) + 1) : SubSeq(s, p, p + Len(old) - 1) = old}
    IN  IF hits = {} THEN 0 ELSE SetMin(hits)

RECURSIVE str_replace(_, _, _)
\* s.replace(old, new) for a non-empty old: every non-overlapping occurrence, left to right
str_replace(s, old, new) ==
    LET p == Find(s, old)
    IN  IF p = 0 THEN s
        ELSE SubSeq(s, 1, p - 1) \o new \o str_replace(Drop(s, p + Len(old) - 1), old, new)

(***************************************************************************)
(* Ordered dicts                                                           *)
(***************************************************************************)
DictKeys(d) == {d[i].k : i \in 1..Len(d)}

DictHas(d, key) == \E i \in 1..Len(d) : d[i].k = key

DictPos(d, key) == CHOOSE i \in 1..Len(d) : d[i].k = key

DictGet(d, key) == d[DictPos(d, key)].v

\* d[key] = value: in place for a key the dict has, at the end for a new one
DictSet(d, key, value) ==
    IF DictHas(d, key)
    THEN [i \in 1..Len(d) |-> IF d[i].k = key THEN [k |-> key, v |-> value] ELSE d[i]]
    ELSE Append(d, [k |-> key, v |-> value])

\* del d[key]
DictDel(d, key) ==
    LET p == DictPos(d, key)
    IN  SubSeq(d, 1, p - 1) \o SubSeq(d, p + 1, Len(d))

(***************************************************************************)
(* clp.py: extract_pattern and rehydrate_message                           *)
(***************************************************************************)
\* the variable cap of extract_pattern
VarCap == 10

IsWordAt(s, p) == p >= 1 /\ p <= Len(s) /\ s[p] \in WordChars

\* \b between the characters at p - 1 and p (1-based)
WordBoundary(s, p) == IsWordAt(s, p - 1) # IsWordAt(s, p)

\* \d{4}-\d{2}-\d{2}T\d{2}:\d{2}:\d{2}
TsShape ==
    <<"d", "d", "d", "d", "-", "d", "d", "-", "d", "d", "T",
      "d", "d", ":", "d", "d", ":", "d", "d">>

TsCore(s, i) ==
    /\ i + Len(TsShape) - 1 <= Len(s)
    /\ \A j \in 1..Len(TsShape) :
          IF TsShape[j] = "d" THEN s[i + j - 1] \in Digits ELSE s[i + j - 1] = TsShape[j]

\* after a core at i, the positions that follow (\.\d+)?Z? in the order the
\* backtracking regex engine tries them: greedy fraction first, Z before no Z
RECURSIVE TsFracEnds(_, _, _)
TsFracEnds(s, base, f) ==
    IF f < 1 THEN <<>>
    ELSE LET p == base + 1 + f
         IN  (IF p <= Len(s) /\ s[p] = "Z" THEN <<p + 1>> ELSE <<>>) \o <<p>>
             \o TsFracEnds(s, base, f - 1)

TsEnds(s, i) ==
    LET base == i + Len(TsShape)
        m == IF base <= Len(s) /\ s[base] = "." THEN RunLen(s, base + 1, Digits) ELSE 0
    IN  TsFracEnds(s, base, m)
        \o (IF base <= Len(s) /\ s[base] = "Z" THEN <<base + 1>> ELSE <<>>)
        \o <<base>>

\* regex_patterns['timestamp'] matched at i: the position after the match, or 0
TsMatchEnd(s, i) ==
    IF ~(WordBoundary(s, i) /\ TsCore(s, i)) THEN 0
    ELSE LET ends == TsEnds(s, i)
             ok == {j \in 1..Len(ends) : WordBoundary(s, ends[j])}
         IN  IF ok = {} THEN 0 ELSE ends[SetMin(ok)]

\* f"var_{root}_{n}_{kind}"
VarName(root, n, kind) ==
    <<"v", "a", "r", "_">> \o root \o <<"_">> \o IntToStr(n) \o <<"_">> \o kind

\* f'{{{var_name}}}'
Placeholder(name) == <<"{">> \o name \o <<"}">>

K_timestamp == <<"t", "i", "m", "e", "s", "t", "a", "m", "p">>

K_number == <<"n", "u", "m", "b", "e", "r">>

K_time == <<"t", "i", "m", "e">>

K_hex == <<"h", "e", "x">>

K_ip == <<"i", "p">>

\* at_cap with > for >=: one variable more is extracted
at_cap_late(total_vars) == total_vars > VarCap

\* `if total_vars >= 10` (lines 20 and 44): no variable is extracted any more
at_cap(total_vars) == total_vars >= VarCap

\* the keys of regex_patterns in dict order
VarKinds == <<K_timestamp, K_number, K_time, K_hex, K_ip>>

RECURSIVE replace_timestamps(_, _, _, _)
\* re.sub(regex_patterns['timestamp'], replace_timestamp, log_message), from position i;
\* st carries msg (the output so far), variables, n (var_count['timestamp']), total_vars
replace_timestamps(s, i, root, st) ==
    LET starts == {p \in i..Len(s) : TsMatchEnd(s, p) # 0}
    IN  IF starts = {} THEN [st EXCEPT !.msg = @ \o SubSeq(s, i, Len(s))]
        ELSE LET b == SetMin(starts)
                 e == TsMatchEnd(s, b)
                 lit == SubSeq(s, b, e - 1)
                 name == VarName(root, st.n, K_timestamp)
                 before == st.msg \o SubSeq(s, i, b - 1)
             IN  IF at_cap(st.total_vars)
                 THEN replace_timestamps(s, e, root, [st EXCEPT !.msg = before \o lit])
                 ELSE replace_timestamps(s, e, root,
                          [msg |-> before \o Placeholder(name),
                           variables |-> DictSet(st.variables, name, lit),
                           n |-> st.n + 1,
                           total_vars |-> st.total_vars + 1])

\* the end of the text that starts at p: the position of the next separator
TextEnd(s, p) ==
    LET stops == {q \in p..Len(s) : s[q] \in Whitespace \cup Delimiters}
    IN  IF stops = {} THEN Len(s) + 1 ELSE SetMin(stops)

RECURSIVE tokenize(_, _)
\* re.split(r'(\s+|[{}\[\](),;:\"\'=\-.])', log_message) from position i, without the
\* empty strings that re.split puts between adjacent separators (the token loop
\* appends them to the pattern unchanged, where they add nothing)
tokenize(s, i) ==
    IF i > Len(s) THEN <<>>
    ELSE IF s[i] \in Whitespace
         THEN LET n == RunLen(s, i, Whitespace) IN <<SubSeq(s, i, i + n - 1)>> \o tokenize(s, i + n)
    ELSE IF s[i] \in Delimiters
         THEN <<<<s[i]>>>> \o tokenize(s, i + 1)
    ELSE LET e == TextEnd(s, i) IN <<SubSeq(s, i, e - 1)>> \o tokenize(s, e)

\* re.fullmatch(regex_patterns['ip'], t): four groups of 1 to 3 digits joined by dots
IsIp(t) ==
    \E a, b, c, d \in 1..3 :
        /\ Len(t) = a + b + c + d + 3
        /\ AllIn(SubSeq(t, 1, a), Digits) /\ t[a + 1] = "."
        /\ AllIn(SubSeq(t, a + 2, a + b + 1), Digits) /\ t[a + b + 2] = "."
        /\ AllIn(SubSeq(t, a + b + 3, a + b + c + 2), Digits) /\ t[a + b + c + 3] = "."
        /\ AllIn(SubSeq(t, a + b + c + 4, Len(t)), Digits)

\* re.fullmatch(regex_patterns[kind], t) for a non-empty token t
full_match(kind, t) ==
    IF kind = K_timestamp
    THEN TsCore(t, 1) /\ \E j \in 1..Len(TsEnds(t, 1)) : TsEnds(t, 1)[j] = Len(t) + 1
    ELSE IF kind = K_number THEN AllIn(t, Digits)
    ELSE IF kind = K_time
         THEN Len(t) >= 2 /\ t[Len(t)] = "s" /\ AllIn(SubSeq(t, 1, Len(t) - 1), Digits)
    ELSE IF kind = K_hex
         THEN \/ AllIn(t, HexChars)
              \/ StartsWith(t, <<"0", "x">>) /\ Len(t) >= 3 /\ AllIn(Drop(t, 2), HexChars)
    ELSE IsIp(t)

\* the first kind, in dict order, that the token fully matches; 0 when none does
MatchKind(t) ==
    LET ok == {j \in 1..Len(VarKinds) : full_match(VarKinds[j], t)}
    IN  IF ok = {} THEN 0 ELSE SetMin(ok)

RECURSIVE token_loop(_, _, _)
\* the loop over tokens; st carries pattern, variables, var_count and total_vars
token_loop(tokens, root, st) ==
    IF tokens = <<>> THEN st
    ELSE LET token == Head(tokens)
             j == IF AllIn(token, Whitespace) \/ at_cap(st.total_vars) THEN 0 ELSE MatchKind(token)
         IN  IF j = 0
             THEN token_loop(Tail(tokens), root, [st EXCEPT !.pattern = @ \o token])
             ELSE LET name == VarName(root, st.var_count[j], VarKinds[j])
                  IN  token_loop(Tail(tokens), root,
                          [pattern |-> st.pattern \o Placeholder(name),
                           variables |-> DictSet(st.variables, name, token),
                           var_count |-> [st.var_count EXCEPT ![j] = @ + 1],
                           total_vars |-> st.total_vars + 1])

\* extract_pattern(log_message, root): [pattern, variables]
extract_pattern(log_message, root) ==
    LET tokens_of(s1) ==
            token_loop(tokenize(s1.msg, 1), root,
                [pattern |-> <<>>, variables |-> s1.variables,
                 var_count |-> [j \in 1..Len(VarKinds) |-> IF j = 1 THEN s1.n ELSE 0],
                 total_vars |-> s1.total_vars])
        result(s2) == [pattern |-> s2.pattern, variables |-> s2.variables]
    IN  result(tokens_of(replace_timestamps(log_message, 1, root,
                   [msg |-> <<>>, variables |-> <<>>, n |-> 0, total_vars |-> 0])))

RECURSIVE rehydrate_message(_, _)
\* rehydrate_message(pattern_str, variables): a falsy value (None, '') replaces nothing
rehydrate_message(pattern_str, variables) ==
    IF variables = <<>> THEN pattern_str
    ELSE LET e == Head(variables)
         IN  rehydrate_message(
                 IF e.v = None \/ e.v = <<>> THEN pattern_str
                 ELSE str_replace(pattern_str, Placeholder(e.k), e.v),
                 Tail(variables))

(***************************************************************************)
(* joedb.py: TrieNode and Trie.  A node is [index, children]: children is  *)
(* the ordered dict edge label -> child node, index is NoIndex for None.   *)
(* A trie is [root, current_index].                                        *)
(***************************************************************************)
\* TrieNode()
TrieNode == [index |-> NoIndex, children |-> <<>>]

\* Trie()
NewTrie == [root |-> TrieNode, current_index |-> 1]

\* a prefix length that stops one character early
common_prefix_length_short(str1, str2) ==
    LET min_len == Min(Len(str1), Len(str2))
        diff == {i \in 1..min_len : str1[i] # str2[i]}
        len == IF diff = {} THEN min_len ELSE SetMin(diff) - 1
    IN  IF len > 1 THEN len - 1 ELSE len

\* Trie._common_prefix_length(str1, str2)
common_prefix_length(str1, str2) ==
    LET min_len == Min(Len(str1), Len(str2))
        diff == {i \in 1..min_len : str1[i] # str2[i]}
    IN  IF diff = {} THEN min_len ELSE SetMin(diff) - 1

\* the second half of Trie.insert at the node where the walk stopped, word being
\* word[idx:] (not empty): split the first child that shares a prefix, or add a leaf
split_or_add(node, word, cur) ==
    LET ch == node.children
        shares == {i \in 1..Len(ch) : common_prefix_length(word, ch[i].k) > 0}
    IN  IF shares # {}
        THEN LET key == ch[SetMin(shares)].k
                 common_len == common_prefix_length(word, key)
                 remaining_key == Drop(key, common_len)
                 remaining_word == Drop(word, common_len)
                 moved == <<[k |-> remaining_key, v |-> ch[SetMin(shares)].v]>>
                 new_node ==
                     IF remaining_word # <<>>
                     THEN [index |-> cur,
                           children |-> DictSet(moved, remaining_word,
                                                [index |-> cur + 1, children |-> <<>>])]
                     ELSE [index |-> cur + 1, children |-> moved]
             IN  [node |-> [node EXCEPT !.children =
                               DictSet(DictDel(ch, key), Take(word, common_len), new_node)],
                  index |-> cur + 1,
                  cur |-> cur + 2]
        ELSE [node |-> [node EXCEPT !.children =
                           DictSet(ch, word, [index |-> cur, children |-> <<>>])],
              index |-> cur,
              cur |-> cur + 1]

RECURSIVE insert_at(_, _, _)
\* Trie.insert from `node` with word[idx:] left to place: [node, index, cur] are the
\* rebuilt node, the returned index and the trie's current_index afterwards
insert_at(node, word, cur) ==
    IF word = <<>> THEN [node |-> node, index |-> node.index, cur |-> cur]
    ELSE LET ch == node.children
             hits == {i \in 1..Len(ch) : Take(word, Len(ch[i].k)) = ch[i].k}
         IN  IF hits # {}
             THEN LET i == SetMin(hits)
                      r == insert_at(ch[i].v, Drop(word, Len(ch[i].k)), cur)
                  IN  [node |-> [node EXCEPT !.children[i].v = r.node],
                       index |-> r.index,
                       cur |-> r.cur]
             ELSE split_or_add(node, word, cur)

\* an insert that leaves current_index as it was
Trie_insert_same_index(trie, word) ==
    LET r == insert_at(trie.root, word, trie.current_index)
    IN  [trie |-> [root |-> r.node, current_index |-> trie.current_index], index |-> r.index]

\* Trie.insert(word): [trie, index]
Trie_insert(trie, word) ==
    LET r == insert_at(trie.root, word, trie.current_index)
    IN  [trie |-> [root |-> r.node, current_index |-> r.cur], index |-> r.index]

RECURSIVE merge_chain_unprotected(_, _, _, _)
\* merge_chain without the test `child.index not in used_nodes`
merge_chain_unprotected(d, key, child, used_nodes) ==
    IF Len(child.children) = 1
    THEN LET grandchild_key == child.children[1].k
             grandchild == child.children[1].v
         IN  merge_chain_unprotected(DictDel(DictSet(d, key \o grandchild_key, grandchild), key),
                                     key \o grandchild_key, grandchild, used_nodes)
    ELSE [d |-> d, key |-> key, child |-> child]

RECURSIVE merge_chain(_, _, _, _)
\* the while loop of merge_single_children.dfs on one child of the dict d
merge_chain(d, key, child, used_nodes) ==
    IF Len(child.children) = 1 /\ child.index \notin used_nodes
    THEN LET grandchild_key == child.children[1].k
             grandchild == child.children[1].v
         IN  merge_chain(DictDel(DictSet(d, key \o grandchild_key, grandchild), key),
                         key \o grandchild_key, grandchild, used_nodes)
    ELSE [d |-> d, key |-> key, child |-> child]

RECURSIVE merge_dfs(_, _), merge_children(_, _, _, _)
\* the for loop of dfs over list(node.children.items()), from item i of that list
merge_children(d, items, i, used_nodes) ==
    IF i > Len(items) THEN d
    ELSE LET m == merge_chain(d, items[i].k, items[i].v, used_nodes)
         IN  merge_children(DictSet(m.d, m.key, merge_dfs(m.child, used_nodes)),
                            items, i + 1, used_nodes)

\* merge_single_children.dfs(node)
merge_dfs(node, used_nodes) ==
    [node EXCEPT !.children = merge_children(node.children, node.children, 1, used_nodes)]

\* Trie.merge_single_children(used_nodes), used_nodes a set of indices
merge_single_children(trie, used_nodes) ==
    [trie EXCEPT !.root = merge_dfs(trie.root, used_nodes)]

\* m[key] = value of an unordered dict
FnSet(m, key, value) == [q \in DOMAIN m \cup {key} |-> IF q = key THEN value ELSE m[q]]

EmptyFn == [q \in {} |-> 0]

RECURSIVE rename_dfs(_, _, _), rename_children(_, _, _, _), rename_dfs_children_first(_, _, _)
\* a dfs that numbers a node after its children
rename_dfs_children_first(node, cur, map) ==
    LET indexed == node.index # NoIndex
        numbered(r) ==
            [node |-> [index |-> IF indexed THEN r.cur ELSE NoIndex, children |-> r.children],
             cur |-> IF indexed THEN r.cur + 1 ELSE r.cur,
             map |-> IF indexed THEN FnSet(r.map, node.index, r.cur) ELSE r.map]
    IN  numbered(rename_children(node.children, 1, cur, map))

\* rename_indices.dfs(node): [node, cur, map]
rename_dfs(node, cur, map) ==
    LET indexed == node.index # NoIndex
        r == rename_children(node.children, 1,
                             IF indexed THEN cur + 1 ELSE cur,
                             IF indexed THEN FnSet(map, node.index, cur) ELSE map)
    IN  [node |-> [index |-> IF indexed THEN cur ELSE NoIndex, children |-> r.children],
         cur |-> r.cur,
         map |-> r.map]

rename_children(children, i, cur, map) ==
    IF i > Len(children) THEN [children |-> children, cur |-> cur, map |-> map]
    ELSE LET r == rename_dfs(children[i].v, cur, map)
         IN  rename_children([children EXCEPT ![i].v = r.node], i + 1, r.cur, r.map)

\* Trie.rename_indices(): [trie, rename_map]
rename_indices(trie) ==
    LET r == rename_dfs(trie.root, 1, EmptyFn)
    IN  [trie |-> [root |-> r.node, current_index |-> r.cur], rename_map |-> r.map]

RECURSIVE build_trie_value_map(_, _, _), build_children_value_map(_, _, _, _)
\* JoeDB._build_trie_value_map(node, prefix, value_map)
build_trie_value_map(node, prefix, value_map) ==
    build_children_value_map(node.children, 1, prefix,
        IF node.index # NoIndex THEN FnSet(value_map, node.index, prefix) ELSE value_map)

build_children_value_map(children, i, prefix, value_map) ==
    IF i > Len(children) THEN value_map
    ELSE build_children_value_map(children, i + 1, prefix,
             build_trie_value_map(children[i].v, prefix \o children[i].k, value_map))

(***************************************************************************)
(* Python values held by columns: an int is [int |-> n], a str [str |-> s] *)
(***************************************************************************)
PyInt(n) == [int |-> n]

PyStr(s) == [str |-> s]

IsStr(value) == "str" \in DOMAIN value

\* str(value)
py_str(value) == IF IsStr(value) THEN value.str ELSE IntToStr(value.int)

\* whether int(value) returns (it raises ValueError on a str that is no literal)
int_ok(value) == IsStr(value) => IsIntLiteral(value.str)

\* int(value)
py_int(value) == IF IsStr(value) THEN StrToInt(value.str) ELSE value.int

\* the ints of a list of values, as a set: what `index in column` can find
IntsOf(column) == {column[i].int : i \in {j \in 1..Len(column) : ~IsStr(column[j])}}

(***************************************************************************)
(* datetime: fromisoformat(...).timestamp() and fromtimestamp(...,         *)
(* UTC).isoformat(), for the literals the timestamp regex matches.  A      *)
(* literal without Z is a naive datetime, taken here in a UTC local zone.  *)
(***************************************************************************)
IsLeap(y) == (y % 4 = 0 /\ y % 100 # 0) \/ y % 400 = 0

DaysInMonth(y, m) ==
    IF m = 2 THEN (IF IsLeap(y) THEN 29 ELSE 28)
    ELSE IF m \in {4, 6, 9, 11} THEN 30 ELSE 31

\* days from 1970-01-01 to the civil date y-m-d
DaysFromCivil(y, m, d) ==
    LET yy == IF m <= 2 THEN y - 1 ELSE y
        era == yy \div 400
        yoe == yy - era * 400
        mp == IF m > 2 THEN m - 3 ELSE m + 9
        doy == (153 * mp + 2) \div 5 + d - 1
        doe == yoe * 365 + yoe \div 4 - yoe \div 100 + doy
    IN  era * 146097 + doe - 719468

\* the civil date [y, m, d] of a day number
CivilFromDays(z0) ==
    LET z == z0 + 719468
        era == z \div 146097
        doe == z - era * 146097
        yoe == (doe - doe \div 1460 + doe \div 36524 - doe \div 146096) \div 365
        doy == doe - (365 * yoe + yoe \div 4 - yoe \div 100)
        mp == (5 * doy + 2) \div 153
        d == doy - (153 * mp + 2) \div 5 + 1
        m == IF mp < 10 THEN mp + 3 ELSE mp - 9
        y == yoe + era * 400 + (IF m <= 2 THEN 1 ELSE 0)
    IN  [y |-> y, m |-> m, d |-> d]

\* the fields of a literal of the shape TsShape
TsFields(s) ==
    [y |-> DigitsToNat(SubSeq(s, 1, 4), 0), m |-> DigitsToNat(SubSeq(s, 6, 7), 0),
     d |-> DigitsToNat(SubSeq(s, 9, 10), 0), hh |-> DigitsToNat(SubSeq(s, 12, 13), 0),
     mm |-> DigitsToNat(SubSeq(s, 15, 16), 0), ss |-> DigitsToNat(SubSeq(s, 18, 19), 0)]

\* whether datetime.fromisoformat(s) returns; it raises ValueError otherwise
fromisoformat_ok(s) ==
    /\ TsCore(s, 1)
    /\ \E j \in 1..Len(TsEnds(s, 1)) : TsEnds(s, 1)[j] = Len(s) + 1
    /\ LET f == TsFields(s)
       IN  /\ f.y >= 1 /\ f.m \in 1..12 /\ f.d >= 1 /\ f.d <= DaysInMonth(f.y, f.m)
           /\ f.hh <= 23 /\ f.mm <= 59 /\ f.ss <= 59

\* int(datetime.datetime.fromisoformat(s).timestamp()): int() truncates towards zero
iso_to_unix(s) ==
    LET f == TsFields(s)
        whole == DaysFromCivil(f.y, f.m, f.d) * 86400 + f.hh * 3600 + f.mm * 60 + f.ss
        frac == IF Len(s) > Len(TsShape) /\ s[Len(TsShape) + 1] = "."
                THEN SubSeq(s, Len(TsShape) + 2, Len(TsShape) + 1 + RunLen(s, Len(TsShape) + 2, Digits))
                ELSE <<>>
    IN  IF whole < 0 /\ ~AllIn(frac, {"0"}) THEN whole + 1 ELSE whole

Pad2(n) == zfill(IntToStr(n), 2)

\* datetime.datetime.fromtimestamp(n, datetime.UTC).isoformat()
unix_to_iso(n) ==
    LET days == n \div 86400
        rest == n - days * 86400
        c == CivilFromDays(days)
    IN  zfill(IntToStr(c.y), 4) \o <<"-">> \o Pad2(c.m) \o <<"-">> \o Pad2(c.d) \o <<"T">>
        \o Pad2(rest \div 3600) \o <<":">> \o Pad2((rest % 3600) \div 60) \o <<":">>
        \o Pad2(rest % 60) \o <<"+", "0", "0", ":", "0", "0">>

(***************************************************************************)
(* joedb.py: flatten_json and JoeDB.insert.  A JSON object is the ordered  *)
(* dict of its items; a value is [str |-> s] or, nested, [obj |-> object]. *)
(* The instance `self` is the record of the fields of JoeDB.               *)
(***************************************************************************)
TYPE_STRING == 1

TYPE_NUMBER == 2

TYPE_TIMESTAMP == 3

RECURSIVE flatten_items(_, _, _)
\* the list `items` that flatten_json builds from item i of data on
flatten_items(data, i, parent_key) ==
    IF i > Len(data) THEN <<>>
    ELSE LET new_key == IF parent_key # <<>> THEN parent_key \o <<".">> \o data[i].k ELSE data[i].k
         IN  (IF "obj" \in DOMAIN data[i].v
              THEN flatten_items(data[i].v.obj, 1, new_key)
              ELSE <<[k |-> new_key, v |-> data[i].v.str]>>)
             \o flatten_items(data, i + 1, parent_key)

RECURSIVE ToDict(_, _)
\* dict(items): a repeated key keeps its first place and takes its last value
ToDict(items, d) == IF items = <<>> THEN d ELSE ToDict(Tail(items), DictSet(d, Head(items).k, Head(items).v))

\* flatten_json(data): the nested calls build dicts of their own, which lose only
\* what the outer dict(items) would lose too
flatten_json(data) == ToDict(flatten_items(data, 1, <<>>), <<>>)

P_var == <<"v", "a", "r", "_">>

\* JoeDB.__init__(use_patternization)
NewJoeDB(use_patternization) ==
    [columns |-> <<>>, column_types |-> EmptyFn, cardinality |-> EmptyFn, tries |-> EmptyFn,
     record_count |-> 0, use_patternization |-> use_patternization,
     trie_value_maps |-> EmptyFn]

\* lines 181-195 of insert: a column first seen is created, back-filled and typed
provision_column(self, local_key) ==
    LET is_timestamp_column == StartsWith(local_key, P_var) /\ EndsWith(local_key, <<"_">> \o K_timestamp)
        is_number_column ==
            is_timestamp_column \/ (StartsWith(local_key, P_var) /\ EndsWith(local_key, <<"_">> \o K_number))
    IN  [self EXCEPT
            !.columns = DictSet(@, local_key, [i \in 1..self.record_count |-> PyInt(0)]),
            !.cardinality = FnSet(@, local_key, {}),
            !.column_types = FnSet(@, local_key,
                IF is_timestamp_column THEN TYPE_TIMESTAMP
                ELSE IF is_number_column THEN TYPE_NUMBER ELSE TYPE_STRING),
            !.tries = IF is_number_column THEN @ ELSE FnSet(@, local_key, NewTrie)]

\* lines 207-208 of insert: append the index, then count the value; a column that
\* decode created has no cardinality entry, and the lookup raises KeyError
append_value(self, local_key, index, local_value) ==
    LET s1 == [self EXCEPT !.columns = DictSet(@, local_key, Append(DictGet(@, local_key), index))]
    IN  IF local_key \in DOMAIN s1.cardinality
        THEN [self |-> [s1 EXCEPT !.cardinality[local_key] = @ \cup {local_value}], raised |-> FALSE]
        ELSE [self |-> s1, raised |-> TRUE]

\* the body of `for local_key in local_keys` (lines 179-208): [self, raised]
insert_local_key(self, local_key, local_value) ==
    LET fresh == ~DictHas(self.columns, local_key)
        s1 == IF fresh THEN provision_column(self, local_key) ELSE self
        type == IF local_key \in DOMAIN s1.column_types THEN s1.column_types[local_key] ELSE 0
        is_timestamp_column == type = TYPE_TIMESTAMP
        is_number_column == type = TYPE_NUMBER
    IN  IF ~is_number_column /\ ~is_timestamp_column
        THEN IF local_key \notin DOMAIN s1.tries
             THEN [self |-> s1, raised |-> TRUE]
             ELSE LET r == Trie_insert(s1.tries[local_key], local_value)
                  IN  append_value([s1 EXCEPT !.tries[local_key] = r.trie],
                                   local_key, PyInt(r.index), local_value)
        ELSE IF is_timestamp_column
        THEN IF fromisoformat_ok(local_value)
             THEN append_value(s1, local_key, PyInt(iso_to_unix(local_value)), local_value)
             ELSE [self |-> s1, raised |-> TRUE]
        ELSE append_value(s1, local_key, PyStr(local_value), local_value)

RECURSIVE insert_local_keys(_, _, _)
\* `for local_key in local_keys`, over the ordered dict of local values
insert_local_keys(self, locals, i) ==
    IF i > Len(locals) THEN [self |-> self, raised |-> FALSE]
    ELSE LET next(r) == IF r.raised THEN r ELSE insert_local_keys(r.self, locals, i + 1)
         IN  next(insert_local_key(self, locals[i].k, locals[i].v))

\* [key] + list(vars.keys()) with the value each local key stores (line 197): the
\* pattern under key, the literal under a variable name
LocalValues(self, key, value) ==
    LET local_keys(e) == <<[k |-> key, v |-> e.pattern]>> \o e.variables
    IN  local_keys(IF self.use_patternization THEN extract_pattern(value, key)
                   ELSE [pattern |-> value, variables |-> <<>>])

RECURSIVE insert_items(_, _, _, _)
\* `for key, value in flat_data.items()` (lines 173-208): [self, keys, raised]
insert_items(self, flat_data, i, keys) ==
    IF i > Len(flat_data) THEN [self |-> self, keys |-> keys, raised |-> FALSE]
    ELSE LET next(r, locals) ==
                 IF r.raised THEN [self |-> r.self, keys |-> keys, raised |-> TRUE]
                 ELSE insert_items(r.self, flat_data, i + 1, keys \cup DictKeys(locals))
             body(locals) == next(insert_local_keys(self, locals, 1), locals)
         IN  body(LocalValues(self, flat_data[i].k, flat_data[i].v))

\* lines 210-212 of insert: every column the record did not touch gets a 0
pad_absent(columns, keys) ==
    [i \in 1..Len(columns) |->
        IF columns[i].k \in keys THEN columns[i]
        ELSE [k |-> columns[i].k, v |-> Append(columns[i].v, PyInt(0))]]

\* JoeDB.insert(json_object): [self, raised]; an exception leaves what was done
insert(self, json_object) ==
    LET flat_data == flatten_json(json_object)
        done(r) ==
            IF r.raised THEN [self |-> r.self, raised |-> TRUE]
            ELSE [self |-> [r.self EXCEPT !.columns = pad_absent(@, r.keys),
                                          !.record_count = @ + 1],
                  raised |-> FALSE]
    IN  done(insert_items(self, flat_data, 1, DictKeys(flat_data)))

(***************************************************************************)
(* joedb.py: run_length_encode, int.to_bytes / int.from_bytes, and the     *)
(* order of str values that sorted() uses                                  *)
(***************************************************************************)
RECURSIVE rle_from(_, _, _, _), rle_from_counting_on(_, _, _, _)
\* rle_from that keeps counting where a new run starts
rle_from_counting_on(data, i, prev_value, count) ==
    IF i > Len(data) THEN <<[value |-> prev_value, length |-> count]>>
    ELSE IF data[i] = prev_value THEN rle_from_counting_on(data, i + 1, prev_value, count + 1)
    ELSE <<[value |-> prev_value, length |-> count]>>
         \o rle_from_counting_on(data, i + 1, data[i], count)

\* the loop of run_length_encode from item i, with the run (prev_value, count) open
rle_from(data, i, prev_value, count) ==
    IF i > Len(data) THEN <<[value |-> prev_value, length |-> count]>>
    ELSE IF data[i] = prev_value THEN rle_from(data, i + 1, prev_value, count + 1)
    ELSE <<[value |-> prev_value, length |-> count]>> \o rle_from(data, i + 1, data[i], 1)

\* run_length_encode(data): the list of (value, length) pairs
run_length_encode(data) == IF data = <<>> THEN <<>> ELSE rle_from(data, 2, data[1], 1)

RECURSIVE bit_length(_)
\* int.bit_length()
bit_length(n) == IF n = 0 THEN 0 ELSE 1 + bit_length(Abs(n) \div 2)

RECURSIVE NatBytes(_, _)
\* the `size` big-endian base-256 digits of n >= 0 (its low digits when it has more)
NatBytes(n, size) == IF size = 0 THEN <<>> ELSE Append(NatBytes(n \div 256, size - 1), n % 256)

\* n.to_bytes(size, byteorder='big', signed=signed): two's complement when negative
to_bytes(n, size, signed) ==
    IF n >= 0 THEN NatBytes(n, size)
    ELSE [i \in 1..size |-> 255 - NatBytes(-n - 1, size)[i]]

RECURSIVE BytesNat(_, _)
BytesNat(bytes, acc) == IF bytes = <<>> THEN acc ELSE BytesNat(Tail(bytes), acc * 256 + Head(bytes))

\* int.from_bytes(bytes, byteorder='big', signed=signed); b'' gives 0
from_bytes(bytes, signed) ==
    IF signed /\ bytes # <<>> /\ bytes[1] >= 128
    THEN -BytesNat([i \in 1..Len(bytes) |-> 255 - bytes[i]], 0) - 1
    ELSE BytesNat(bytes, 0)

\* the characters of the model in code point order: ord(c) grows with the place of c
Ascii ==
    <<"\t", "\n", " ", "!", "\"", "#", "$", "%", "&", "'", "(", ")", "*", "+", ",", "-", ".", "/",
      "0", "1", "2", "3", "4", "5", "6", "7", "8", "9", ":", ";", "<", "=", ">", "?", "@",
      "A", "B", "C", "D", "E", "F", "G", "H", "I", "J", "K", "L", "M",
      "N", "O", "P", "Q", "R", "S", "T", "U", "V", "W", "X", "Y", "Z",
      "[", "]", "^", "_",
      "a", "b", "c", "d", "e", "f", "g", "h", "i", "j", "k", "l", "m",
      "n", "o", "p", "q", "r", "s", "t", "u", "v", "w", "x", "y", "z",
      "{", "|", "}", "~">>

Ord(c) == CHOOSE i \in 1..Len(Ascii) : Ascii[i] = c

\* a < b for two str
StrLess(a, b) ==
    LET n == common_prefix_length(a, b)
    IN  IF n = Min(Len(a), Len(b)) THEN Len(a) < Len(b) ELSE Ord(a[n + 1]) < Ord(b[n + 1])

\* a < b for two tuples of str of one length
TupleLess(a, b) ==
    LET diff == {i \in 1..Len(a) : a[i] # b[i]}
    IN  diff # {} /\ StrLess(a[SetMin(diff)], b[SetMin(diff)])

\* sorted(range(n), key=...): the stable order of 1..n by the keys key[1..n]
StableOrder(key) ==
    LET n == Len(key)
        place(i) == 1 + Cardinality({j \in 1..n : TupleLess(key[j], key[i]) \/ (key[j] = key[i] /\ j < i)})
    IN  [q \in 1..n |-> CHOOSE i \in 1..n : place(i) = q]

(***************************************************************************)
(* The file.  A file is the sequence of the fields written to it; a field  *)
(* is [k, v, cut]: k its kind, v its value, cut whether the file ends      *)
(* inside it (only some of its bytes are there).  Kinds: "magic" the       *)
(* 12-byte header, "u64", "u32" and "u8" the struct.pack fields, "cstr" a  *)
(* null-terminated string, "trie" and "data" the Zstd frames of a trie     *)
(* walk (the list of [label, child_count]) and of a column (its bytes).    *)
(* The u32 before a frame is the frame's byte length, which the model      *)
(* leaves to the compressor: its v is 0.                                   *)
(***************************************************************************)
Field(k, v) == [k |-> k, v |-> v, cut |-> FALSE]

RECURSIVE write_trie(_, _)
\* JoeDB._write_trie(f, node) from child i on: the fields written
write_trie(node, i) ==
    IF i > Len(node.children) THEN <<>>
    ELSE <<[label |-> node.children[i].k, child_count |-> Len(node.children[i].v.children)]>>
         \o write_trie(node.children[i].v, 1) \o write_trie(node, i + 1)

\* sorted(self.columns.keys(), key=lambda x: len(self.cardinality[x])), as places in columns
ordered_columns(self) ==
    LET n == Len(self.columns)
        card(i) == Cardinality(self.cardinality[self.columns[i].k])
        place(i) == 1 + Cardinality({j \in 1..n : card(j) < card(i) \/ (card(j) = card(i) /\ j < i)})
    IN  [q \in 1..n |-> CHOOSE i \in 1..n : place(i) = q]

\* a sort of every column by its own values
sort_rows_each_column(self) ==
    [i \in 1..Len(self.columns) |->
        [k |-> self.columns[i].k,
         v |-> LET order == StableOrder([r \in 1..self.record_count |->
                                            <<py_str(self.columns[i].v[r])>>])
               IN  [r \in 1..self.record_count |-> self.columns[i].v[order[r]]]]]

\* lines 243-256 of encode: the rows, sorted by their str values in column order
sort_rows(self) ==
    LET oc == ordered_columns(self)
        key == [r \in 1..self.record_count |->
                   [q \in 1..Len(oc) |-> py_str(self.columns[oc[q]].v[r])]]
        order == StableOrder(key)
    IN  [i \in 1..Len(self.columns) |->
            [k |-> self.columns[i].k,
             v |-> [r \in 1..self.record_count |-> self.columns[i].v[order[r]]]]]

RECURSIVE write_tries(_, _)
\* lines 259-276 of encode from column i on: [out, raised]; a STRING column
\* without a trie raises KeyError after its type and name are written
write_tries(self, i) ==
    IF i > Len(self.columns) THEN [out |-> <<>>, raised |-> FALSE]
    ELSE LET key == self.columns[i].k
             head == <<Field("u8", self.column_types[key]), Field("cstr", key)>>
         IN  IF self.column_types[key] = TYPE_STRING
             THEN IF key \notin DOMAIN self.tries THEN [out |-> head, raised |-> TRUE]
                  ELSE LET rest == write_tries(self, i + 1)
                       IN  [out |-> head \o <<Field("u32", 0),
                                               Field("trie", write_trie(self.tries[key].root, 1))>>
                                    \o rest.out,
                            raised |-> rest.raised]
             ELSE LET rest == write_tries(self, i + 1)
                  IN  [out |-> head \o rest.out, raised |-> rest.raised]

RECURSIVE runs_bytes(_, _, _, _, _, _)
\* the gz.write calls of one column (lines 302-304, 331-337) from run i on;
\* leading_zeros is empty when no leading-zero byte is written
runs_bytes(rle_encoded, i, value_byte_size, length_byte_size, signed, leading_zeros) ==
    IF i > Len(rle_encoded) THEN <<>>
    ELSE to_bytes(rle_encoded[i].value, value_byte_size, signed)
         \o to_bytes(rle_encoded[i].length, length_byte_size, FALSE)
         \o (IF leading_zeros = <<>> THEN <<>> ELSE to_bytes(leading_zeros[i], 1, FALSE))
         \o runs_bytes(rle_encoded, i + 1, value_byte_size, length_byte_size, signed, leading_zeros)

MaxOf(seq) == SetMax({seq[i] : i \in 1..Len(seq)})

\* lines 286-308 of encode: the data section of a STRING column
string_section(column, rename_map) ==
    LET renamed == [i \in 1..Len(column) |->
                       IF column[i].int \in DOMAIN rename_map THEN rename_map[column[i].int]
                       ELSE column[i].int]
        rle_encoded == run_length_encode(renamed)
        max_value == MaxOf(renamed)
        max_length == MaxOf([i \in 1..Len(rle_encoded) |-> rle_encoded[i].length])
        value_byte_size == (bit_length(max_value) + 7) \div 8
        length_byte_size == (bit_length(max_length) + 7) \div 8
    IN  <<Field("u8", value_byte_size), Field("u8", length_byte_size), Field("u32", 0),
          Field("data", runs_bytes(rle_encoded, 1, value_byte_size, length_byte_size, FALSE, <<>>))>>

\* lines 310-340 of encode: the data section of a NUMBER or TIMESTAMP column; the
\* leading-zero byte of run i is leading_zeros.pop(0), the count of row i
number_section(column, type) ==
    LET delta_encoded == [i \in 1..Len(column) |->
                             IF i = 1 THEN py_int(column[1])
                             ELSE py_int(column[i]) - py_int(column[i - 1])]
        rle_encoded == run_length_encode(delta_encoded)
        max_value == MaxOf([i \in 1..Len(delta_encoded) |-> Abs(delta_encoded[i])])
        value_byte_size == (bit_length(max_value) + 8) \div 8
        leading_zeros == [i \in 1..Len(column) |->
                             Len(py_str(column[i])) - Len(Lstrip0(py_str(column[i])))]
        max_length == MaxOf([i \in 1..Len(rle_encoded) |-> rle_encoded[i].length])
        length_byte_size == (bit_length(max_length) + 7) \div 8
    IN  <<Field("u8", value_byte_size), Field("u8", length_byte_size), Field("u32", 0),
          Field("data", runs_bytes(rle_encoded, 1, value_byte_size, length_byte_size, TRUE,
                                   IF type = TYPE_NUMBER THEN leading_zeros ELSE <<>>))>>

\* whether the data section of a column raises: max() of an empty list, column[0] of
\* an empty list, int() of a str that is no literal
section_raises(column, type) ==
    \/ column = <<>>
    \/ type # TYPE_STRING /\ \E i \in 1..Len(column) : ~int_ok(column[i])

RECURSIVE write_columns(_, _, _)
\* lines 282-341 of encode from column i on: [out, raised]
write_columns(self, rename_maps, i) ==
    IF i > Len(self.columns) THEN [out |-> <<>>, raised |-> FALSE]
    ELSE LET key == self.columns[i].k
             column == self.columns[i].v
             type == self.column_types[key]
         IN  IF section_raises(column, type) THEN [out |-> <<>>, raised |-> TRUE]
             ELSE LET rest == write_columns(self, rename_maps, i + 1)
                  IN  [out |-> (IF type = TYPE_STRING THEN string_section(column, rename_maps[key])
                                ELSE number_section(column, type)) \o rest.out,
                       raised |-> rest.raised]

\* JoeDB.encode(file_path): [self, file, raised, rename_maps]; file is what the path holds
\* when the call ends, by return or by exception (open(..., 'wb') has truncated
\* it, and the with block flushes what was written)
encode(self) ==
    LET header == <<Field("magic", 0), Field("u64", self.record_count)>>
        renamed == [key \in DOMAIN self.tries |->
                       rename_indices(merge_single_children(self.tries[key],
                                          IntsOf(DictGet(self.columns, key))))]
        rename_maps == [key \in DOMAIN self.tries |-> renamed[key].rename_map]
        s1 == [self EXCEPT !.tries = [key \in DOMAIN self.tries |-> renamed[key].trie]]
    IN  IF \/ \E i \in 1..Len(s1.columns) : s1.columns[i].k \notin DOMAIN s1.cardinality
           \/ \E i \in 1..Len(s1.columns) : Len(s1.columns[i].v) < s1.record_count
        THEN [self |-> s1, file |-> header, raised |-> TRUE, rename_maps |-> rename_maps]
        ELSE LET s2 == [s1 EXCEPT !.columns = sort_rows(s1)]
                 tries_out == write_tries(s2, 1)
                 columns_out == write_columns(s2, rename_maps, 1)
             IN  IF tries_out.raised
                 THEN [self |-> s2, file |-> header \o tries_out.out, raised |-> TRUE,
                       rename_maps |-> rename_maps]
                 ELSE [self |-> s2,
                       file |-> header \o tries_out.out \o <<Field("u8", 0)>> \o columns_out.out,
                       raised |-> columns_out.raised,
                       rename_maps |-> rename_maps]

(***************************************************************************)
(* joedb.py: JoeDB.decode.  f.read(n) past the end of the file returns the *)
(* bytes there are: a field that is absent or cut is a short read.  A Zstd *)
(* frame that is cut raises EOFError when read; a frame of no bytes reads  *)
(* as an empty payload.                                                    *)
(***************************************************************************)
\* whether the field at pos is there with all its bytes
Present(file, pos) == pos <= Len(file) /\ ~file[pos].cut

\* a JSON value that is Python's None
JsonNone == [none |-> TRUE]

RECURSIVE read_child_trie(_, _, _, _), read_children(_, _, _, _, _)
\* JoeDB._read_child_trie(f, node, trie) with the walk at item i and
\* trie.current_index = cur: [node, cur, i, hit_terminator]
read_child_trie(items, i, node, cur) ==
    IF i > Len(items) THEN [node |-> node, cur |-> cur, i |-> i, hit_terminator |-> TRUE]
    ELSE LET r == read_children(items, i + 1, [index |-> cur, children |-> <<>>], cur + 1,
                                items[i].child_count)
         IN  [node |-> [node EXCEPT !.children = DictSet(@, items[i].label, r.node)],
              cur |-> r.cur, i |-> r.i, hit_terminator |-> FALSE]

\* `for _ in range(child_count)` of _read_child_trie
read_children(items, i, node, cur, child_count) ==
    IF child_count = 0 THEN [node |-> node, cur |-> cur, i |-> i]
    ELSE LET r == read_child_trie(items, i, node, cur)
         IN  read_children(items, r.i, r.node, r.cur, child_count - 1)

RECURSIVE read_trie_from(_, _, _, _)
read_trie_from(items, i, node, cur) ==
    LET r == read_child_trie(items, i, node, cur)
    IN  IF r.hit_terminator THEN [root |-> r.node, current_index |-> r.cur]
        ELSE read_trie_from(items, r.i, r.node, r.cur)

\* JoeDB._read_trie(f, trie.root, trie) on a new Trie(): the trie read
read_trie(items) == read_trie_from(items, 1, TrieNode, NewTrie.current_index)

\* gz.read(n) at byte p of a payload
gz_read(bytes, p, n) == SubSeq(bytes, p, Min(p + n - 1, Len(bytes)))

RECURSIVE read_runs(_, _, _, _)
\* the loop `while len(column_data) < record_count` (lines 405-408, 421-426) with the
\* payload at byte p; h holds value_byte_size, length_byte_size, signed, zeros (whether
\* a leading-zero byte follows each run) and record_count; acc is [column_data,
\* leading_zeros].  A run of length 0 that consumes no byte repeats forever.
read_runs(bytes, p, h, acc) ==
    IF Len(acc.column_data) >= h.record_count THEN [acc EXCEPT !.diverges = FALSE]
    ELSE LET vb == gz_read(bytes, p, h.value_byte_size)
             p1 == p + Len(vb)
             lb == gz_read(bytes, p1, h.length_byte_size)
             p2 == p1 + Len(lb)
             zb == IF h.zeros THEN gz_read(bytes, p2, 1) ELSE <<>>
             p3 == p2 + Len(zb)
             value == from_bytes(vb, h.signed)
             length == from_bytes(lb, FALSE)
         IN  IF length = 0 /\ p3 = p THEN [acc EXCEPT !.diverges = TRUE]
             ELSE read_runs(bytes, p3, h,
                      [acc EXCEPT !.column_data = @ \o [i \in 1..length |-> value],
                                  !.leading_zeros = @ \o [i \in 1..length |-> from_bytes(zb, FALSE)]])

RECURSIVE prefix_sums(_, _, _)
\* lines 430-436 of decode: the deltas summed up
prefix_sums(column_data, i, acc) ==
    IF i > Len(column_data) THEN acc
    ELSE prefix_sums(column_data, i + 1,
                     Append(acc, IF i = 1 THEN column_data[1] ELSE acc[i - 1] + column_data[i]))

\* lines 391-444 of decode for one column, given its payload: [column, outcome]
read_column(type, value_byte_size, length_byte_size, bytes, record_count) ==
    LET r == read_runs(bytes, 1,
                       [value_byte_size |-> value_byte_size, length_byte_size |-> length_byte_size,
                        signed |-> type # TYPE_STRING, zeros |-> type = TYPE_NUMBER,
                        record_count |-> record_count],
                       [column_data |-> <<>>, leading_zeros |-> <<>>, diverges |-> FALSE])
        decoded_column == prefix_sums(r.column_data, 1, <<>>)
    IN  IF r.diverges THEN [column |-> <<>>, outcome |-> "diverges"]
        ELSE IF type = TYPE_STRING
        THEN [column |-> [i \in 1..Len(r.column_data) |-> PyInt(r.column_data[i])],
              outcome |-> "returned"]
        ELSE IF r.column_data = <<>> THEN [column |-> <<>>, outcome |-> "raised"]
        ELSE IF type = TYPE_NUMBER
        THEN [column |-> [i \in 1..Len(decoded_column) |->
                             PyStr(zfill(IntToStr(decoded_column[i]),
                                         r.leading_zeros[i] + Len(IntToStr(decoded_column[i]))))],
              outcome |-> "returned"]
        ELSE IF type = TYPE_TIMESTAMP
        THEN [column |-> [i \in 1..Len(decoded_column) |-> PyStr(unix_to_iso(decoded_column[i]))],
              outcome |-> "returned"]
        ELSE [column |-> <<>>, outcome |-> "returned"]

RECURSIVE read_tries(_, _, _)
\* the loop `while True` of decode (lines 364-384) with the file at field pos:
\* [self, pos, raised]
read_tries(self, file, pos) ==
    IF pos > Len(file) THEN [self |-> self, pos |-> pos, raised |-> TRUE]
    ELSE IF file[pos].v = 0 THEN [self |-> self, pos |-> pos + 1, raised |-> FALSE]
    ELSE LET column_type == file[pos].v
             key == IF pos + 1 <= Len(file) THEN file[pos + 1].v ELSE <<>>
             s1 == [self EXCEPT !.column_types = FnSet(@, key, column_type),
                                !.columns = DictSet(@, key, <<>>)]
         IN  IF column_type = TYPE_STRING
             THEN LET s2 == [s1 EXCEPT !.tries = FnSet(@, key, NewTrie)]
                  IN  IF ~Present(file, pos + 1) \/ ~Present(file, pos + 2)
                         \/ (pos + 3 <= Len(file) /\ file[pos + 3].cut)
                      THEN [self |-> s2, pos |-> pos, raised |-> TRUE]
                      ELSE LET items == IF pos + 3 <= Len(file) THEN file[pos + 3].v ELSE <<>>
                               trie == read_trie(items)
                           IN  read_tries(
                                   [s2 EXCEPT !.tries = FnSet(@, key, trie),
                                              !.trie_value_maps =
                                                  FnSet(@, key, build_trie_value_map(trie.root, <<>>, EmptyFn))],
                                   file, pos + 4)
             ELSE IF ~Present(file, pos + 1) THEN [self |-> s1, pos |-> pos, raised |-> TRUE]
                  ELSE read_tries(s1, file, pos + 2)

RECURSIVE read_columns(_, _, _, _, _)
\* the loop `for key in self.columns` of decode (lines 390-444) at column i with the
\* file at field pos: [self, outcome]
read_columns(self, file, pos, record_count, i) ==
    IF i > Len(self.columns) THEN [self |-> self, outcome |-> "returned"]
    ELSE IF ~Present(file, pos) \/ ~Present(file, pos + 1) \/ ~Present(file, pos + 2)
            \/ (pos + 3 <= Len(file) /\ file[pos + 3].cut /\ record_count > 0)
    THEN [self |-> self, outcome |-> "raised"]
    ELSE LET key == self.columns[i].k
             bytes == IF Present(file, pos + 3) THEN file[pos + 3].v ELSE <<>>
             next(r) ==
                 IF r.outcome # "returned" THEN [self |-> self, outcome |-> r.outcome]
                 ELSE read_columns([self EXCEPT !.columns[i].v = r.column], file, pos + 4,
                                   record_count, i + 1)
         IN  next(read_column(self.column_types[key], file[pos].v, file[pos + 1].v, bytes,
                              record_count))

RECURSIVE split(_, _)
\* s.split(sep) for a one-character sep
split(s, sep) ==
    LET hits == {p \in 1..Len(s) : s[p] = sep}
    IN  IF hits = {} THEN <<s>>
        ELSE <<Take(s, SetMin(hits) - 1)>> \o split(Drop(s, SetMin(hits)), sep)

RECURSIVE set_path(_, _, _, _)
\* lines 465-471 of decode: json_object[parts[i]]...[parts[n]] = value, the dicts on
\* the way created; [obj, raised], TypeError when a part holds a str or None
set_path(obj, parts, i, value) ==
    IF i = Len(parts) THEN [obj |-> DictSet(obj, parts[i], value), raised |-> FALSE]
    ELSE LET inner == IF DictHas(obj, parts[i]) THEN DictGet(obj, parts[i]) ELSE [obj |-> <<>>]
         IN  IF "obj" \notin DOMAIN inner THEN [obj |-> obj, raised |-> TRUE]
             ELSE LET r == set_path(inner.obj, parts, i + 1, value)
                  IN  [obj |-> DictSet(obj, parts[i], [obj |-> r.obj]), raised |-> r.raised]

\* line 457 of decode: the pattern values of row i, by column in order
pattern_values(self, i) ==
    LET pattern_columns == SelectSeq(self.columns, LAMBDA c : StartsWith(c.k, P_var))
    IN  [q \in 1..Len(pattern_columns) |->
            [k |-> pattern_columns[q].k,
             v |-> IF self.column_types[pattern_columns[q].k] = TYPE_STRING
                   THEN LET m == self.trie_value_maps[pattern_columns[q].k]
                            index == pattern_columns[q].v[i].int
                        IN  IF index \in DOMAIN m THEN m[index] ELSE None
                   ELSE py_str(pattern_columns[q].v[i])]]

\* whether line 457 raises KeyError: a STRING pattern column without a value map
pattern_values_raises(self) ==
    \E q \in 1..Len(self.columns) :
        /\ StartsWith(self.columns[q].k, P_var)
        /\ self.column_types[self.columns[q].k] = TYPE_STRING
        /\ self.columns[q].k \notin DOMAIN self.trie_value_maps

RECURSIVE json_object_of(_, _, _, _)
\* lines 458-471 of decode: the object of row i from real column q on: [obj, raised]
json_object_of(self, i, q, json_object) ==
    LET real_columns == SelectSeq(self.columns, LAMBDA c : ~StartsWith(c.k, P_var))
    IN  IF q > Len(real_columns) THEN [obj |-> json_object, raised |-> FALSE]
        ELSE LET key == real_columns[q].k
                 value_index == real_columns[q].v[i]
             IN  IF value_index = PyInt(0) THEN json_object_of(self, i, q + 1, json_object)
                 ELSE IF key \notin DOMAIN self.trie_value_maps
                 THEN [obj |-> json_object, raised |-> TRUE]
                 ELSE LET m == self.trie_value_maps[key]
                          found == ~IsStr(value_index) /\ value_index.int \in DOMAIN m
                          value == IF ~found THEN JsonNone
                                   ELSE IF m[value_index.int] = <<>> THEN [str |-> <<>>]
                                   ELSE [str |-> rehydrate_message(m[value_index.int],
                                                                   pattern_values(self, i))]
                          r == set_path(json_object, split(key, "."), 1, value)
                      IN  IF r.raised THEN r ELSE json_object_of(self, i, q + 1, r.obj)

RECURSIVE json_objects_from(_, _, _, _)
\* `for i in range(record_count)` of decode (lines 454-472): [json_objects, raised]
json_objects_from(self, record_count, i, json_objects) ==
    IF i > record_count THEN [json_objects |-> json_objects, raised |-> FALSE]
    ELSE LET r == json_object_of(self, i, 1, <<>>)
         IN  IF r.raised \/ pattern_values_raises(self) THEN [json_objects |-> json_objects, raised |-> TRUE]
             ELSE json_objects_from(self, record_count, i + 1, Append(json_objects, r.obj))

\* JoeDB.decode(file_path): [self, outcome, json_objects]; outcome is "returned",
\* "raised" (an exception leaves the call) or "diverges" (the call never ends)
decode(self, file) ==
    IF ~Present(file, 1) \/ ~Present(file, 2)
    THEN [self |-> self, outcome |-> "raised", json_objects |-> <<>>]
    ELSE LET record_count == file[2].v
             s1 == [self EXCEPT !.tries = EmptyFn, !.trie_value_maps = EmptyFn]
             reconstructed(c, j) ==
                 [self |-> c.self,
                  outcome |-> IF j.raised THEN "raised" ELSE "returned",
                  json_objects |-> IF j.raised THEN <<>> ELSE j.json_objects]
             columns_read(c) ==
                 IF c.outcome # "returned"
                 THEN [self |-> c.self, outcome |-> c.outcome, json_objects |-> <<>>]
                 ELSE reconstructed(c, json_objects_from(c.self, record_count, 1, <<>>))
             tries_read(t) ==
                 IF t.raised THEN [self |-> t.self, outcome |-> "raised", json_objects |-> <<>>]
                 ELSE columns_read(read_columns(t.self, file, t.pos, record_count, 1))
         IN  tries_read(read_tries(s1, file, 3))

(***************************************************************************)
(* The program as a state machine: one JoeDB instance at a time, the file  *)
(* at the path it encodes to and decodes from, and the calls made on it.   *)
(* Records come from a vocabulary chosen at the start.                     *)
(***************************************************************************)
\* insert calls made in one run
MaxInserts == 2

\* encode calls made in one run
MaxEncodes == 2

\* decode calls made in one run
MaxDecodes == 1

\* instances constructed in one run
MaxInstances == 2

\* characters of a column name that a cut can leave
MaxNameCut == 3

Vocabularies ==
    << \* a plain key, a nested key, a key absent from a record
       <<<<[k |-> <<"k">>, v |-> [str |-> <<"a">>]]>>,
         <<[k |-> <<"k">>, v |-> [str |-> <<"z", "z", "z">>]]>>,
         <<[k |-> <<"m">>, v |-> [obj |-> <<[k |-> <<"i", "d">>, v |-> [str |-> <<"b", " ", "c">>]]>>]]>>>>,
       \* decimal literals with and without leading zeros
       <<<<[k |-> <<"k">>, v |-> [str |-> <<"0">>]]>>,
         <<[k |-> <<"k">>, v |-> [str |-> <<"0", "0", "7">>]]>>,
         <<[k |-> <<"k">>, v |-> [str |-> <<"7">>]]>>>>,
       \* keys that begin with var_, a key equal to a variable name, a dotted key
       <<<<[k |-> <<"v", "a", "r", "_", "a">>, v |-> [str |-> <<"x">>]]>>,
         <<[k |-> <<"k">>, v |-> [str |-> <<"5">>]],
           [k |-> <<"v", "a", "r", "_", "k", "_", "0", "_", "n", "u", "m", "b", "e", "r">>, v |-> [str |-> <<"7">>]]>>,
         <<[k |-> <<"a">>, v |-> [str |-> <<"x">>]],
           [k |-> <<"a", ".", "b">>, v |-> [str |-> <<"y">>]]>>>>,
       \* the messages of the spec: Process <decimal> from <IPv4>
       <<<<[k |-> <<"m", "e", "s", "s", "a", "g", "e">>, v |-> [str |-> <<"P", "r", "o", "c", "e", "s", "s", " ", "1", " ", "f", "r", "o", "m", " ", "1", "0", ".", "0", ".", "0", ".", "1">>]]>>,
         <<[k |-> <<"m", "e", "s", "s", "a", "g", "e">>, v |-> [str |-> <<"P", "r", "o", "c", "e", "s", "s", " ", "2", "3", " ", "f", "r", "o", "m", " ", "1", "0", ".", "0", ".", "0", ".", "2">>]]>>,
         <<[k |-> <<"m", "e", "s", "s", "a", "g", "e">>, v |-> [str |-> <<"u", "p">>]]>>>>,
       \* timestamps: a date, a match of the timestamp regex that is no date, a word
       <<<<[k |-> <<"t">>, v |-> [str |-> <<"1", "9", "7", "0", "-", "0", "1", "-", "0", "1", "T", "0", "0", ":", "0", "0", ":", "0", "5", "Z">>]]>>,
         <<[k |-> <<"t">>, v |-> [str |-> <<"1", "9", "7", "0", "-", "1", "3", "-", "0", "1", "T", "0", "0", ":", "0", "0", ":", "0", "5">>]]>>,
         <<[k |-> <<"t">>, v |-> [str |-> <<"x">>]]>>>>,
       \* words that share a prefix, and a word that is a prefix of another
       <<<<[k |-> <<"k">>, v |-> [str |-> <<"u", "p">>]]>>,
         <<[k |-> <<"k">>, v |-> [str |-> <<"u", "s">>]]>>,
         <<[k |-> <<"k">>, v |-> [str |-> <<"u">>]]>>>>,
       \* the empty key, at the top and over a nested object
       <<<<[k |-> <<>>, v |-> [obj |-> <<[k |-> <<"a">>, v |-> [str |-> <<"x">>]]>>]]>>,
         <<[k |-> <<"a">>, v |-> [str |-> <<"x">>]]>>,
         <<[k |-> <<>>, v |-> [str |-> <<"x">>]]>>>>>>

VARIABLES
    clp,        \* an extract_pattern call and its rehydration: see InitClp
    radix,      \* a trie under insert and merge_single_children: see InitTrie
    rle,        \* a run_length_encode call: see InitRle
    db,         \* the instance: the fields of JoeDB
    file,       \* the path: [exists, fields]
    last,       \* the last call: [op, outcome, result, input, roundtrip]
    hist,       \* of the instance: [records, stage], the records its inserts stored
    written,    \* of the file: [kind, records, clean, tries, strings], how it came to be
    inserts,    \* insert calls made so far
    encodes,    \* encode calls made so far
    decodes,    \* decode calls made so far
    instances,  \* instances constructed so far
    vocab       \* the vocabulary of the run

vars == <<db, file, last, hist, written, inserts, encodes, decodes, instances, vocab, clp, radix, rle>>

\* the variables of the instance and its file
dbvars == <<db, file, last, hist, written, inserts, encodes, decodes, instances, vocab>>

Call(op, outcome) ==
    [op |-> op, outcome |-> outcome, result |-> <<>>, input |-> "none", roundtrip |-> FALSE]

NewHist == [records |-> <<>>, stage |-> "inserting"]

\* a call that never returns leaves nothing to run after it
Running == last.outcome # "diverges"

Init ==
    /\ vocab \in 1..Len(Vocabularies)
    /\ \E p \in BOOLEAN : db = NewJoeDB(p)
    /\ file = [exists |-> FALSE, fields |-> <<>>]
    /\ last = Call("new", "returned")
    /\ hist = NewHist
    /\ written = [kind |-> "none", records |-> <<>>, clean |-> FALSE]
    /\ inserts = 0
    /\ encodes = 0
    /\ decodes = 0
    /\ instances = 1
    /\ clp = [phase |-> "idle"]
    /\ radix = [phase |-> "idle"]
    /\ rle = [phase |-> "idle"]

\* JoeDB(use_patternization=p): a new instance; the file stays
New(p) ==
    /\ Running
    /\ instances < MaxInstances
    /\ db' = NewJoeDB(p)
    /\ last' = Call("new", "returned")
    /\ hist' = NewHist
    /\ instances' = instances + 1
    /\ UNCHANGED <<file, written, inserts, encodes, decodes, vocab, clp, radix, rle>>

\* db.insert(json_object), in a run of `limit` insert calls
InsertWithin(json_object, limit) ==
    /\ Running
    /\ inserts < limit
    /\ \E r \in {insert(db, json_object)} :
           /\ db' = r.self
           /\ last' = Call("insert", IF r.raised THEN "raised" ELSE "returned")
           /\ hist' = IF r.raised THEN [hist EXCEPT !.stage = "other"]
                      ELSE [records |-> Append(hist.records, json_object),
                            stage |-> IF hist.stage = "inserting" THEN "inserting" ELSE "other"]
    /\ inserts' = inserts + 1
    /\ UNCHANGED <<file, written, encodes, decodes, instances, vocab, clp, radix, rle>>

\* db.insert(json_object)
Insert(json_object) == InsertWithin(json_object, MaxInserts)

\* per column that has a trie and per row of `columns`, the string that the index
\* in the row spells in `tries`; None for the index 0 of an absent value
RowStrings(tries, columns) ==
    [key \in {k \in DOMAIN tries : DictHas(columns, k)} |->
        LET value_map == build_trie_value_map(tries[key].root, <<>>, EmptyFn)
            column == DictGet(columns, key)
        IN  [i \in 1..Len(column) |->
                IF "int" \in DOMAIN column[i] /\ column[i].int \in DOMAIN value_map
                THEN value_map[column[i].int] ELSE None]]

\* db.encode(path); written keeps the records inserted, the tries as encode left
\* them, the strings of the rows in the order encode gave them, the rename maps
\* and the columns as encode sorted them, and the writer's use_patternization
Encode ==
    /\ Running
    /\ encodes < MaxEncodes
    /\ \E r \in {encode(db)} :
           /\ db' = r.self
           /\ file' = [exists |-> TRUE, fields |-> r.file]
           /\ last' = Call("encode", IF r.raised THEN "raised" ELSE "returned")
           /\ written' = IF r.raised THEN [kind |-> "partial", records |-> <<>>, clean |-> FALSE]
                         ELSE [kind |-> "whole", records |-> hist.records,
                               clean |-> hist.stage = "inserting",
                               tries |-> r.self.tries,
                               strings |-> RowStrings(db.tries, r.self.columns),
                               rename_maps |-> r.rename_maps,
                               columns |-> r.self.columns,
                               use_patternization |-> db.use_patternization]
           /\ hist' = [hist EXCEPT !.stage = IF ~r.raised /\ hist.stage = "inserting"
                                             THEN "encoded" ELSE "other"]
    /\ encodes' = encodes + 1
    /\ UNCHANGED <<inserts, decodes, instances, vocab, clp, radix, rle>>

\* the first bytes of a file: n fields whole; of the next one, m > 0 bytes (of a
\* string m characters, without its terminator)
Cut(fields, n, m) ==
    IF m = 0 THEN Take(fields, n)
    ELSE Append(Take(fields, n),
                [k |-> fields[n + 1].k,
                 v |-> IF fields[n + 1].k = "cstr" THEN Take(fields[n + 1].v, m)
                       ELSE fields[n + 1].v,
                 cut |-> TRUE])

\* whether Cut(fields, n, m) is a file shorter than fields
CanCut(fields, n, m) ==
    /\ n < Len(fields)
    /\ m > 0 => /\ fields[n + 1].k # "u8"
                /\ fields[n + 1].k # "cstr" => m = 1
                /\ fields[n + 1].k = "cstr" => m <= Len(fields[n + 1].v)

\* a file whose header counts one record more than its columns hold
Inflated(fields) == [fields EXCEPT ![2].v = @ + 1]

\* db.decode(p) for a path p that holds `fields`, which are of kind `input`
DecodeOf(fields, input) ==
    /\ Running
    /\ decodes < MaxDecodes
    /\ \E r \in {decode(db, fields)} :
           /\ db' = r.self
           /\ last' = [op |-> "decode", outcome |-> r.outcome, result |-> r.json_objects,
                       input |-> input,
                       roundtrip |-> /\ input = "whole"
                                     /\ written.clean
                                     /\ \/ hist.stage = "encoded"
                                        \/ db = NewJoeDB(db.use_patternization)]
    /\ hist' = [hist EXCEPT !.stage = "other"]
    /\ decodes' = decodes + 1
    /\ UNCHANGED <<file, written, inserts, encodes, instances, vocab, clp, radix, rle>>

\* db.decode(path): the file as encode left it, "whole" or "partial"
Decode ==
    /\ file.exists
    /\ DecodeOf(file.fields, written.kind)

\* db.decode of the first bytes of a whole file
DecodeCut(n, m) ==
    /\ written.kind = "whole"
    /\ CanCut(file.fields, n, m)
    /\ DecodeOf(Cut(file.fields, n, m), "cut")

\* db.decode of a whole file with its record count raised by one
DecodeInflated ==
    /\ written.kind = "whole"
    /\ DecodeOf(Inflated(file.fields), "inconsistent")

Next ==
    \/ \E p \in BOOLEAN : New(p)
    \/ \E i \in 1..Len(Vocabularies[vocab]) : Insert(Vocabularies[vocab][i])
    \/ Encode
    \/ Decode
    \/ \E n \in 0..Len(file.fields), m \in 0..MaxNameCut : DecodeCut(n, m)
    \/ DecodeInflated

Spec == Init /\ [][Next]_vars

(***************************************************************************)
(* One instance that takes up to three rows of decimal literals (with and  *)
(* without leading zeros, below and above 127), a timestamp and a match of *)
(* the timestamp regex that is no date, then encodes and decodes.          *)
(***************************************************************************)
\* insert calls made in one run of rows
MaxRows == 3

NumberRows ==
    {<<[k |-> <<"k">>, v |-> [str |-> <<"0", "1">>]]>>,
     <<[k |-> <<"k">>, v |-> [str |-> <<"0", "2">>]]>>,
     <<[k |-> <<"k">>, v |-> [str |-> <<"7", "2">>]]>>,
     <<[k |-> <<"k">>, v |-> [str |-> <<"2", "0", "0">>]]>>,
     <<[k |-> <<"t">>, v |-> [str |-> <<"1", "9", "7", "0", "-", "0", "1", "-", "0", "1", "T", "0", "0", ":", "0", "0", ":", "0", "5", "Z">>]]>>,
     <<[k |-> <<"t">>, v |-> [str |-> <<"1", "9", "7", "0", "-", "1", "3", "-", "0", "1", "T", "0", "0", ":", "0", "0", ":", "0", "5">>]]>>}

InitRows ==
    /\ vocab = 0
    /\ \E p \in BOOLEAN : db = NewJoeDB(p)
    /\ file = [exists |-> FALSE, fields |-> <<>>]
    /\ last = Call("new", "returned")
    /\ hist = NewHist
    /\ written = [kind |-> "none", records |-> <<>>, clean |-> FALSE]
    /\ inserts = 0
    /\ encodes = 0
    /\ decodes = 0
    /\ instances = 1
    /\ clp = [phase |-> "idle"]
    /\ radix = [phase |-> "idle"]
    /\ rle = [phase |-> "idle"]

\* db.insert(json_object) of a row
InsertRow(json_object) == InsertWithin(json_object, MaxRows)

NextRows ==
    \/ \E json_object \in NumberRows : InsertRow(json_object)
    \/ Encode
    \/ Decode

SpecRows == InitRows /\ [][NextRows]_vars

(***************************************************************************)
(* extract_pattern and rehydrate_message on their own: the message is a    *)
(* list of words joined by single spaces, some pieces repeated.            *)
(***************************************************************************)
\* pieces in the repeated part of a message
MaxPieces == 2

\* repetitions of the pieces
MaxRepeat == 6

\* a decimal, a decimal with leading zeros, a hex word, a plain word, the text of a
\* placeholder, a timestamp, a dotted quad
Pieces ==
    {<<"5">>,
     <<"0", "0", "7">>,
     <<"a", "b">>,
     <<"u", "p">>,
     <<"{", "v", "a", "r", "_", "r", "_", "0", "_", "n", "u", "m", "b", "e", "r", "}">>,
     <<"1", "9", "7", "0", "-", "0", "1", "-", "0", "1", "T", "0", "0", ":", "0", "0", ":", "0", "5">>,
     <<"1", "0", ".", "0", ".", "0", ".", "1">>}

Roots == {<<"r">>, <<"k">>}

RECURSIVE Words(_, _)
\* ' '.join(ps * n)
Words(ps, n) ==
    IF n = 0 THEN <<>>
    ELSE LET line == [i \in 1..(2 * Len(ps) - 1) |-> IF i % 2 = 1 THEN ps[(i + 1) \div 2] ELSE <<" ">>]
             flat[i \in 0..Len(line)] == IF i = 0 THEN <<>> ELSE flat[i - 1] \o line[i]
         IN  IF n = 1 THEN flat[Len(line)] ELSE flat[Len(line)] \o <<" ">> \o Words(ps, n - 1)

InitClp ==
    /\ \E k \in 1..MaxPieces : \E ps \in [1..k -> Pieces] : \E n \in 1..MaxRepeat :
       \E root \in Roots :
           clp = [phase |-> "input", log_message |-> Words(ps, n), root |-> root,
                  pattern |-> <<>>, variables |-> <<>>, rehydrated |-> <<>>]
    /\ db = NewJoeDB(TRUE)
    /\ file = [exists |-> FALSE, fields |-> <<>>]
    /\ last = Call("new", "returned")
    /\ hist = NewHist
    /\ written = [kind |-> "none", records |-> <<>>, clean |-> FALSE]
    /\ inserts = 0
    /\ encodes = 0
    /\ decodes = 0
    /\ instances = 1
    /\ vocab = 1
    /\ radix = [phase |-> "idle"]
    /\ rle = [phase |-> "idle"]

\* pattern, variables = extract_pattern(log_message, root)
Extract ==
    /\ clp.phase = "input"
    /\ LET r == extract_pattern(clp.log_message, clp.root)
       IN  clp' = [clp EXCEPT !.phase = "extracted", !.pattern = r.pattern,
                              !.variables = r.variables]
    /\ UNCHANGED <<dbvars, radix, rle>>

\* rehydrate_message(pattern, variables)
Rehydrate ==
    /\ clp.phase = "extracted"
    /\ clp' = [clp EXCEPT !.phase = "rehydrated",
                          !.rehydrated = rehydrate_message(clp.pattern, clp.variables)]
    /\ UNCHANGED <<dbvars, radix, rle>>

NextClp == Extract \/ Rehydrate

SpecClp == InitClp /\ [][NextClp]_vars

(***************************************************************************)
(* A Trie on its own: inserts, then merge_single_children.                 *)
(***************************************************************************)
\* insert calls on the trie
MaxWords == 3

TrieWords ==
    {<<"a", "b", "c">>, <<"a", "b", "c", "d">>, <<"a", "b">>, <<"a", "b", "d">>, <<"b">>, <<"a">>}

InitTrie ==
    /\ radix = [phase |-> "inserting", trie |-> NewTrie, returned |-> <<>>,
                before |-> NewTrie, used_nodes |-> {}]
    /\ clp = [phase |-> "idle"]
    /\ rle = [phase |-> "idle"]
    /\ db = NewJoeDB(TRUE)
    /\ file = [exists |-> FALSE, fields |-> <<>>]
    /\ last = Call("new", "returned")
    /\ hist = NewHist
    /\ written = [kind |-> "none", records |-> <<>>, clean |-> FALSE]
    /\ inserts = 0
    /\ encodes = 0
    /\ decodes = 0
    /\ instances = 1
    /\ vocab = 1

\* trie.insert(word); returned keeps each word with the index returned for it
TrieInsert(word) ==
    /\ radix.phase = "inserting"
    /\ Len(radix.returned) < MaxWords
    /\ LET r == Trie_insert(radix.trie, word)
       IN  radix' = [radix EXCEPT !.trie = r.trie,
                                  !.returned = Append(@, [word |-> word, index |-> r.index])]
    /\ UNCHANGED <<dbvars, clp, rle>>

\* trie.merge_single_children(used_nodes); before keeps the trie of before the call
TrieMerge(used_nodes) ==
    /\ radix.phase = "inserting"
    /\ radix' = [radix EXCEPT !.phase = "merged", !.before = radix.trie,
                              !.used_nodes = used_nodes,
                              !.trie = merge_single_children(radix.trie, used_nodes)]
    /\ UNCHANGED <<dbvars, clp, rle>>

NextTrie ==
    \/ \E word \in TrieWords : TrieInsert(word)
    \/ \E used_nodes \in SUBSET (1..(radix.trie.current_index - 1)) : TrieMerge(used_nodes)

SpecTrie == InitTrie /\ [][NextTrie]_vars

(***************************************************************************)
(* run_length_encode on its own, on lists of ints.                         *)
(***************************************************************************)
\* items of the list
MaxData == 5

RleValues == {-1, 0, 1, 7}

InitRle ==
    /\ \E n \in 0..MaxData : \E data \in [1..n -> RleValues] :
           rle = [phase |-> "input", data |-> data, encoded |-> <<>>]
    /\ radix = [phase |-> "idle"]
    /\ clp = [phase |-> "idle"]
    /\ db = NewJoeDB(TRUE)
    /\ file = [exists |-> FALSE, fields |-> <<>>]
    /\ last = Call("new", "returned")
    /\ hist = NewHist
    /\ written = [kind |-> "none", records |-> <<>>, clean |-> FALSE]
    /\ inserts = 0
    /\ encodes = 0
    /\ decodes = 0
    /\ instances = 1
    /\ vocab = 1

\* encoded = run_length_encode(data)
RleEncode ==
    /\ rle.phase = "input"
    /\ rle' = [rle EXCEPT !.phase = "encoded", !.encoded = run_length_encode(rle.data)]
    /\ UNCHANGED <<dbvars, clp, radix>>

NextRle == RleEncode

SpecRle == InitRle /\ [][NextRle]_vars

(***************************************************************************)
(* What the claims compare: JSON objects up to key order, flattened keys,  *)
(* the columns a file declares, the strings a trie spells.                 *)
(***************************************************************************)
\* s without the zeros that begin a run of digits: "007" and "7", "0" and "00" agree
StripZeros(s) ==
    LET keep == {i \in 1..Len(s) :
                    ~\E b \in 1..i : /\ b = 1 \/ s[b - 1] \notin Digits
                                     /\ \A j \in b..i : s[j] = "0"}
    IN  [q \in 1..Cardinality(keep) |->
            s[CHOOSE i \in keep : Cardinality({j \in keep : j <= i}) = q]]

RECURSIVE SameJson(_, _)
\* two JSON objects with the same keys and, under each, the same string up to
\* leading zeros or the same object
SameJson(a, b) ==
    /\ DictKeys(a) = DictKeys(b)
    /\ \A key \in DictKeys(a) :
           LET x == DictGet(a, key)
               y == DictGet(b, key)
           IN  IF "obj" \in DOMAIN x /\ "obj" \in DOMAIN y THEN SameJson(x.obj, y.obj)
               ELSE IF "str" \in DOMAIN x /\ "str" \in DOMAIN y
                    THEN StripZeros(x.str) = StripZeros(y.str)
               ELSE FALSE

RECURSIVE LeafKeys(_, _)
\* the dotted paths of the leaves of a JSON object
LeafKeys(obj, prefix) ==
    UNION {LET name == IF prefix = <<>> THEN obj[i].k ELSE prefix \o <<".">> \o obj[i].k
           IN  IF "obj" \in DOMAIN obj[i].v THEN LeafKeys(obj[i].v.obj, name) ELSE {name}
           : i \in 1..Len(obj)}

RECURSIVE HasEmptyLeaf(_)
\* whether some leaf of a JSON object is None or the empty string
HasEmptyLeaf(obj) ==
    \E i \in 1..Len(obj) :
        IF "obj" \in DOMAIN obj[i].v THEN HasEmptyLeaf(obj[i].v.obj)
        ELSE obj[i].v = JsonNone \/ obj[i].v = [str |-> <<>>]

\* how many objects of the list have the leaf keys of obj
CountKeys(objects, obj) ==
    Cardinality({j \in 1..Len(objects) : LeafKeys(objects[j], <<>>) = LeafKeys(obj, <<>>)})

\* the column names a file declares
FileColumns(fields) == {fields[i].v : i \in {j \in 1..Len(fields) : fields[j].k = "cstr"}}

\* index -> string spelled, over the indexed nodes of a trie
ValueMap(trie) == build_trie_value_map(trie.root, <<>>, EmptyFn)

StringsOf(trie) == {ValueMap(trie)[i] : i \in DOMAIN ValueMap(trie)}

RECURSIVE ChildCounts(_, _)
\* index -> number of children, over the indexed nodes below a node
ChildCounts(node, acc) ==
    LET here == IF node.index = NoIndex THEN acc
                ELSE FnSet(acc, node.index, Len(node.children))
        below[i \in 0..Len(node.children)] ==
            IF i = 0 THEN here ELSE ChildCounts(node.children[i].v, below[i - 1])
    IN  below[Len(node.children)]

K_message == <<"m", "e", "s", "s", "a", "g", "e">>

K_Process == <<"P", "r", "o", "c", "e", "s", "s", " ">>

K_from == <<" ", "f", "r", "o", "m", " ">>

\* the decimal of 'Process <decimal> from <IPv4>'
ProcessNumber(s) == SubSeq(s, Len(K_Process) + 1, Find(s, K_from) - 1)

\* the IPv4 of 'Process <decimal> from <IPv4>'
ProcessIp(s) == Drop(s, Find(s, K_from) + Len(K_from) - 1)

\* a record {"message": 'Process <decimal> from <IPv4>'}
IsProcessRecord(json_object) ==
    /\ Len(json_object) = 1
    /\ json_object[1].k = K_message
    /\ "str" \in DOMAIN json_object[1].v
    /\ LET s == json_object[1].v.str
       IN  /\ StartsWith(s, K_Process)
           /\ Find(s, K_from) > Len(K_Process) + 1
           /\ AllIn(ProcessNumber(s), Digits)
           /\ IsIp(ProcessIp(s))

\* how often a placeholder occurs in a pattern
Occurrences(pattern, name) ==
    Cardinality({p \in 1..(Len(pattern) - Len(Placeholder(name)) + 1) :
                    SubSeq(pattern, p, p + Len(Placeholder(name)) - 1) = Placeholder(name)})

(***************************************************************************)
(* The claims                                                              *)
(***************************************************************************)
\* C1: records inserted into a new instance, then encode, then decode (by the
\* writer or by a new instance): decode returns the inserted records in the order
\* of insertion, equal up to key order and leading zeros of decimals.
C1_RoundTrip ==
    last.roundtrip =>
        /\ last.outcome = "returned"
        /\ Len(last.result) = Len(written.records)
        /\ \A i \in 1..Len(written.records) : SameJson(last.result[i], written.records[i])

\* C2: after an insert that returns, on an instance that has only seen inserts
\* return, every column has exactly record_count entries.
C2_ColumnLengths ==
    (last.op = "insert" /\ last.outcome = "returned" /\ hist.stage = "inserting") =>
        \A i \in 1..Len(db.columns) : Len(db.columns[i].v) = db.record_count

\* C3: rehydrate_message(extract_pattern(s, r)) is s, for every message s and root r.
C3_Rehydrate ==
    clp.phase = "rehydrated" => clp.rehydrated = clp.log_message

\* C4: the records a round trip returns have, record for record, the flattened keys
\* of the records inserted (as many records with each set of keys), and no leaf
\* that is None or empty.
C4_AbsentStayAbsent ==
    (last.roundtrip /\ last.outcome = "returned") =>
        /\ Len(last.result) = Len(written.records)
        /\ \A i \in 1..Len(written.records) :
               CountKeys(last.result, written.records[i])
                   = CountKeys(written.records, written.records[i])
        /\ \A j \in 1..Len(last.result) : ~HasEmptyLeaf(last.result[j])

\* C5: with patternization, after inserts of 'Process <decimal> from <IPv4>'
\* messages alone, the column message holds one index in every row, the other
\* columns are exactly var_message_0_number and var_message_0_ip, and row for row
\* they hold the decimal and the whole IPv4.
C5_ProcessColumns ==
    LET number == VarName(K_message, 0, K_number)
        ip == VarName(K_message, 0, K_ip)
        n == Len(hist.records)
    IN  (/\ db.use_patternization
         /\ hist.stage = "inserting"
         /\ n > 0
         /\ \A i \in 1..n : IsProcessRecord(hist.records[i])) =>
            /\ DictKeys(db.columns) = {K_message, number, ip}
            /\ \A i \in 1..n : DictGet(db.columns, K_message)[i] = DictGet(db.columns, K_message)[1]
            /\ \A i \in 1..n :
                   DictGet(db.columns, number)[i] = PyStr(ProcessNumber(hist.records[i][1].v.str))
            /\ \A i \in 1..n :
                   LET index == DictGet(db.columns, ip)[i].int
                   IN  /\ index \in DOMAIN ValueMap(db.tries[ip])
                       /\ ValueMap(db.tries[ip])[index] = ProcessIp(hist.records[i][1].v.str)

\* C6: after decode of a whole file returns, the instance has exactly the columns
\* the file declares, each with the file's record_count entries, and its
\* record_count is the file's.
C6_DecodeFresh ==
    (last.op = "decode" /\ last.input = "whole" /\ last.outcome = "returned") =>
        /\ DictKeys(db.columns) = FileColumns(file.fields)
        /\ \A i \in 1..Len(db.columns) : Len(db.columns[i].v) = file.fields[2].v
        /\ db.record_count = file.fields[2].v

\* C7: a step in which encode raises leaves the path as it was, and a step in
\* which decode raises leaves columns, column_types and tries as they were.
C7_Atomic ==
    [][/\ (last'.op = "encode" /\ last'.outcome = "raised") => file' = file
       /\ (last'.op = "decode" /\ last'.outcome = "raised") =>
              /\ db'.columns = db.columns
              /\ db'.column_types = db.column_types
              /\ db'.tries = db.tries]_vars

\* C8: decode of a file that is cut, or whose header counts more records than
\* its columns hold, raises: it neither returns nor runs forever.
C8_TruncatedRaises ==
    (last.op = "decode" /\ last.input \in {"cut", "inconsistent"}) => last.outcome = "raised"

\* C9: extract_pattern returns at most 10 variables; each name stands once in the
\* pattern; and what it did not extract is left as text: putting the values back
\* gives the message (for a message without braces of its own).
C9_VariableCap ==
    clp.phase = "extracted" =>
        /\ Len(clp.variables) <= 10
        /\ \A i, j \in 1..Len(clp.variables) :
               i # j => clp.variables[i].k # clp.variables[j].k
        /\ "{" \notin {clp.log_message[p] : p \in 1..Len(clp.log_message)} =>
               /\ \A i \in 1..Len(clp.variables) :
                      Occurrences(clp.pattern, clp.variables[i].k) = 1
               /\ rehydrate_message(clp.pattern, clp.variables) = clp.log_message

\* C9, its case: ten variables extracted, and a decimal left in the pattern as text
C9_Witness ==
    /\ clp.phase = "extracted"
    /\ Len(clp.variables) = 10
    /\ "{" \notin {clp.log_message[p] : p \in 1..Len(clp.log_message)}
    /\ Find(clp.pattern, <<" ", "0", "0", "7">>) # 0

\* C10 as stated: merge_single_children(P) keeps the set of strings spelled at
\* indexed nodes, and every index of P spells what it spelled.
C10_MergeKeepsStrings ==
    radix.phase = "merged" =>
        /\ StringsOf(radix.trie) = StringsOf(radix.before)
        /\ \A i \in radix.used_nodes \cap DOMAIN ValueMap(radix.before) :
               /\ i \in DOMAIN ValueMap(radix.trie)
               /\ ValueMap(radix.trie)[i] = ValueMap(radix.before)[i]

\* C10, amended: merge_single_children(P) keeps every index of P, and every index
\* whose node has no child or several; an index it keeps spells what it spelled; it
\* adds none.  (It drops the indexed nodes outside P that have exactly one child.)
C10_MergeKeepsProtected ==
    radix.phase = "merged" =>
        LET before == ValueMap(radix.before)
            after == ValueMap(radix.trie)
            counts == ChildCounts(radix.before.root, EmptyFn)
        IN  /\ DOMAIN after \subseteq DOMAIN before
            /\ \A i \in DOMAIN after : after[i] = before[i]
            /\ \A i \in DOMAIN before : (i \in radix.used_nodes \/ counts[i] # 1) => i \in DOMAIN after
            /\ \A i \in DOMAIN before : (i \notin radix.used_nodes /\ counts[i] = 1) => i \notin DOMAIN after

\* C10, its case: a merge that dropped a node and kept a protected one-child node
C10_Witness ==
    /\ radix.phase = "merged"
    /\ StringsOf(radix.trie) # StringsOf(radix.before)
    /\ \E i \in radix.used_nodes :
           /\ i \in DOMAIN ValueMap(radix.before)
           /\ ChildCounts(radix.before.root, EmptyFn)[i] = 1

RECURSIVE Expand(_)
\* each value of a list of runs repeated by its length, in order
Expand(runs) ==
    IF runs = <<>> THEN <<>>
    ELSE [i \in 1..Head(runs).length |-> Head(runs).value] \o Expand(Tail(runs))

\* C11: expanding run_length_encode(v) gives v; every length is at least 1 and the
\* lengths sum to len(v); the empty list encodes to the empty list.
C11_RleExpands ==
    rle.phase = "encoded" =>
        /\ Expand(rle.encoded) = rle.data
        /\ \A i \in 1..Len(rle.encoded) : rle.encoded[i].length >= 1
        /\ Len(Expand([i \in 1..Len(rle.encoded) |-> [value |-> 0, length |-> rle.encoded[i].length]]))
               = Len(rle.data)
        /\ rle.data = <<>> => rle.encoded = <<>>

\* C11, its case: a list encoded into several runs, one of them longer than 1
C11_Witness ==
    /\ rle.phase = "encoded"
    /\ Len(rle.encoded) >= 3
    /\ \E i \in 1..Len(rle.encoded) : rle.encoded[i].length >= 2

RECURSIVE RadixOk(_)
\* every edge below node has a label that is not empty, and the labels of the
\* children of one node begin with characters that differ pairwise
RadixOk(node) ==
    LET ch == node.children
    IN  /\ \A i \in 1..Len(ch) : ch[i].k # <<>>
        /\ \A i, j \in 1..Len(ch) : i # j => ch[i].k[1] # ch[j].k[1]
        /\ \A i \in 1..Len(ch) : RadixOk(ch[i].v)

RECURSIVE HasFork(_)
\* whether some node below the root (or the root) has two children or more
HasFork(node) ==
    \/ Len(node.children) >= 2
    \/ \E i \in 1..Len(node.children) : HasFork(node.children[i].v)

\* C13: in every trie reached by inserts, and after merge_single_children, every
\* edge label is non-empty and the labels of the children of one node begin with
\* pairwise different characters.
C13_Radix ==
    radix.phase \in {"inserting", "merged"} => RadixOk(radix.trie.root)

\* C13, its case: three words were inserted, an edge was split below the root so
\* that a node has two children, and merge_single_children joined two edges
C13_Witness ==
    /\ radix.phase = "merged"
    /\ Len(radix.returned) = 3
    /\ radix.trie # radix.before
    /\ Len(radix.trie.root.children) = 1
    /\ HasFork(radix.trie.root)

\* C14: while words (none empty) are inserted into one trie, every index insert
\* returned is positive and is, in the trie as it is now, the index of the node
\* whose edges spell the word it was returned for; two inserts returned the same
\* index exactly when their words are equal.
C14_InsertDictionary ==
    radix.phase = "inserting" =>
        /\ \A i \in 1..Len(radix.returned) :
               /\ radix.returned[i].index > 0
               /\ radix.returned[i].index \in DOMAIN ValueMap(radix.trie)
               /\ ValueMap(radix.trie)[radix.returned[i].index] = radix.returned[i].word
        /\ \A i, j \in 1..Len(radix.returned) :
               radix.returned[i].index = radix.returned[j].index
                   <=> radix.returned[i].word = radix.returned[j].word

\* C14, its case: three inserts, the second a word already inserted, the third a
\* prefix of it that split its edge
C14_Witness ==
    /\ radix.phase = "inserting"
    /\ Len(radix.returned) = 3
    /\ radix.returned[1].word = radix.returned[2].word
    /\ Len(radix.returned[3].word) < Len(radix.returned[1].word)
    /\ radix.returned[3].word = Take(radix.returned[1].word, Len(radix.returned[3].word))
    /\ radix.returned[3].index > radix.returned[1].index

\* whether the columns of `after` are the record_count rows of `before` under one
\* permutation pi, in non-decreasing order of their keys (the str of the values, the
\* columns taken by ascending cardinality), rows of equal keys in their old order
RowsSorted(before, after) ==
    LET n == before.record_count
        m == Len(before.columns)
        oc == ordered_columns(before)
        card(q) == Cardinality(before.cardinality[before.columns[oc[q]].k])
        row(columns, r) == [q \in 1..m |-> columns[q].v[r]]
        key(r) == [q \in 1..m |-> py_str(before.columns[oc[q]].v[r])]
    IN  /\ Len(after.columns) = m
        /\ \A q \in 1..m : /\ after.columns[q].k = before.columns[q].k
                            /\ Len(after.columns[q].v) = n
        /\ {oc[q] : q \in 1..m} = 1..m
        /\ \A q \in 1..(m - 1) : card(q) <= card(q + 1)
        /\ \E pi \in {f \in [1..n -> 1..n] : \A r, t \in 1..n : f[r] = f[t] => r = t} :
               /\ \A r \in 1..n : row(after.columns, r) = row(before.columns, pi[r])
               /\ \A r, t \in 1..n :
                      r < t => \/ TupleLess(key(pi[r]), key(pi[t]))
                               \/ key(pi[r]) = key(pi[t]) /\ pi[r] < pi[t]

\* C15: an encode that returns leaves in every column the rows it found (the first
\* record_count entries of every column), moved by one permutation for all columns,
\* in non-decreasing order of the tuples of str values taken in ascending-cardinality
\* column order, rows of equal tuples in insertion order.
C15_RowSort ==
    [][(encodes' = encodes + 1 /\ last'.outcome = "returned") => RowsSorted(db, db')]_vars

\* C15, its case: encode has returned after two inserts and moved the second row
\* before the first (trie indices grow as rows are inserted, so 2 before 1 is a
\* swap), in an instance of two columns at least
C15_Witness ==
    /\ last.op = "encode" /\ last.outcome = "returned"
    /\ hist.stage = "encoded"
    /\ db.record_count = 2
    /\ Len(db.columns) >= 2
    /\ \E q \in 1..Len(db.columns) : db.columns[q].v = <<PyInt(2), PyInt(1)>>

\* encode has just returned, so db.columns are the rows as written
JustEncoded == last.op = "encode" /\ last.outcome = "returned"

\* where the data section of column q begins in the file: its four fields are the
\* two widths, the frame length and the frame
SectionPos(q) == Len(file.fields) - 4 * (Len(db.columns) - q + 1) + 1

\* the integers of column q that encode run-length encodes: the renamed indices of
\* a STRING column, the deltas of a NUMBER or TIMESTAMP column
SectionInts(q) ==
    LET key == db.columns[q].k
        column == db.columns[q].v
        rename_map == written.rename_maps[key]
    IN  IF db.column_types[key] = TYPE_STRING
        THEN [i \in 1..Len(column) |->
                 IF column[i].int \in DOMAIN rename_map THEN rename_map[column[i].int]
                 ELSE column[i].int]
        ELSE [i \in 1..Len(column) |->
                 IF i = 1 THEN py_int(column[1]) ELSE py_int(column[i]) - py_int(column[i - 1])]

\* the bytes of one run of column q in the frame
SectionStride(q) ==
    file.fields[SectionPos(q)].v + file.fields[SectionPos(q) + 1].v
        + (IF db.column_types[db.columns[q].k] = TYPE_NUMBER THEN 1 ELSE 0)

\* C16: when encode has written a database that holds records, both widths of every
\* column are between 1 and 255, the frame holds one (value, length) per run, and
\* the bytes of every value and every run length, read with the declared width
\* (signed for NUMBER and TIMESTAMP, unsigned for STRING), are the integer encoded.
C16_WidthsSuffice ==
    (JustEncoded /\ db.record_count > 0) =>
        \A q \in 1..Len(db.columns) :
            LET value_byte_size == file.fields[SectionPos(q)].v
                length_byte_size == file.fields[SectionPos(q) + 1].v
                bytes == file.fields[SectionPos(q) + 3].v
                signed == db.column_types[db.columns[q].k] # TYPE_STRING
                runs == run_length_encode(SectionInts(q))
                at(j) == (j - 1) * SectionStride(q)
            IN  /\ file.fields[SectionPos(q)].k = "u8"
                /\ file.fields[SectionPos(q) + 3].k = "data"
                /\ value_byte_size \in 1..255
                /\ length_byte_size \in 1..255
                /\ Len(bytes) = Len(runs) * SectionStride(q)
                /\ \A j \in 1..Len(runs) :
                       /\ from_bytes(SubSeq(bytes, at(j) + 1, at(j) + value_byte_size), signed)
                              = runs[j].value
                       /\ from_bytes(SubSeq(bytes, at(j) + value_byte_size + 1,
                                            at(j) + value_byte_size + length_byte_size), FALSE)
                              = runs[j].length

RECURSIVE RowsBefore(_, _)
\* the rows of the runs before run j
RowsBefore(runs, j) == IF j = 1 THEN 0 ELSE RowsBefore(runs, j - 1) + runs[j - 1].length

\* the leading-zero count of a column value: len(str(v)) - len(str(v).lstrip('0'))
LeadingZeroCount(value) == Len(py_str(value)) - Len(Lstrip0(py_str(value)))

\* the leading-zero byte of run j of NUMBER column q in the file
LeadingZeroByte(q, j) == file.fields[SectionPos(q) + 3].v[j * SectionStride(q)]

\* C17: when encode has returned, the leading-zero byte written for every run of
\* every NUMBER column is the leading-zero count of the value in the first row of
\* that run.
C17_LeadingZeroOfFirstRow ==
    JustEncoded =>
        \A q \in 1..Len(db.columns) :
            db.column_types[db.columns[q].k] = TYPE_NUMBER =>
                \A j \in 1..Len(run_length_encode(SectionInts(q))) :
                    LeadingZeroByte(q, j) =
                        LeadingZeroCount(
                            db.columns[q].v[RowsBefore(run_length_encode(SectionInts(q)), j) + 1])

\* the deltas of a NUMBER column
Deltas(column) ==
    [i \in 1..Len(column) |->
        IF i = 1 THEN py_int(column[1]) ELSE py_int(column[i]) - py_int(column[i - 1])]

\* whether all rows of every run of the deltas of column share one leading-zero count
UniformRuns(column) ==
    LET runs == run_length_encode(Deltas(column))
    IN  \A j \in 1..Len(runs) :
            \A i \in (RowsBefore(runs, j) + 1)..(RowsBefore(runs, j) + runs[j].length) :
                LeadingZeroCount(column[i]) = LeadingZeroCount(column[RowsBefore(runs, j) + 1])

\* C18: after inserts, encode and decode, every NUMBER column whose runs are each of
\* one leading-zero count holds, in every row that held a decimal literal, that
\* literal character for character.
C18_LiteralsComeBack ==
    (last.roundtrip /\ last.outcome = "returned") =>
        \A q \in 1..Len(written.columns) :
            LET key == written.columns[q].k
                column == written.columns[q].v
            IN  (/\ key \in DOMAIN db.column_types
                 /\ db.column_types[key] = TYPE_NUMBER
                 /\ \A i \in 1..Len(column) : int_ok(column[i])
                 /\ UniformRuns(column)) =>
                    /\ DictHas(db.columns, key)
                    /\ Len(DictGet(db.columns, key)) = Len(column)
                    /\ \A i \in 1..Len(column) :
                           IsStr(column[i]) => DictGet(db.columns, key)[i] = column[i]

\* C19: on an instance that has only inserted and then encoded, every entry of a
\* column with a trie is still the index of the node that spells the string stored
\* for its row (and 0 where the row has none), so that an encode that follows
\* writes those strings.
C19_ColumnsSpellRows ==
    (JustEncoded /\ hist.stage = "encoded") =>
        RowStrings(db.tries, db.columns) = written.strings

\* C20: an insert that raises leaves the instance as it was before the call: its
\* columns, column types, cardinalities, tries and record_count.
C20_FailedInsertNoOp ==
    [][(inserts' = inserts + 1 /\ last'.outcome = "raised") => db' = db]_vars

RECURSIVE PlainRecord(_)
\* a record of the claim: at every level no key begins with var_ or holds a dot,
\* and every leaf is a string that is not empty
PlainRecord(obj) ==
    \A i \in 1..Len(obj) :
        /\ ~StartsWith(obj[i].k, P_var)
        /\ \A p \in 1..Len(obj[i].k) : obj[i].k[p] # "."
        /\ IF "obj" \in DOMAIN obj[i].v THEN PlainRecord(obj[i].v.obj)
           ELSE "str" \in DOMAIN obj[i].v /\ obj[i].v.str # <<>>

RECURSIVE ExactJson(_, _)
\* two JSON objects with the same keys and, under each, the same string or the
\* same object
ExactJson(a, b) ==
    /\ DictKeys(a) = DictKeys(b)
    /\ \A key \in DictKeys(a) :
           LET x == DictGet(a, key)
               y == DictGet(b, key)
           IN  IF "obj" \in DOMAIN x /\ "obj" \in DOMAIN y THEN ExactJson(x.obj, y.obj)
               ELSE IF "str" \in DOMAIN x /\ "str" \in DOMAIN y THEN x.str = y.str
               ELSE FALSE

\* how many objects of the list are the object obj
CountOf(objects, obj) == Cardinality({j \in 1..Len(objects) : ExactJson(objects[j], obj)})

\* C21: without patternization, records of string values that are not empty (no key
\* beginning with var_ or holding a dot) inserted into a new instance, then encode,
\* then decode: decode returns as many records, and each record inserted as many
\* times as it was inserted, with its keys and strings.
C21_RowMultiset ==
    (/\ last.roundtrip
     /\ ~written.use_patternization
     /\ ~db.use_patternization
     /\ \A i \in 1..Len(written.records) : PlainRecord(written.records[i])) =>
        /\ last.outcome = "returned"
        /\ Len(last.result) = Len(written.records)
        /\ \A i \in 1..Len(written.records) :
               CountOf(last.result, written.records[i])
                   = CountOf(written.records, written.records[i])
====
